---- MODULE Spec2Model ----
(***************************************************************************)
(* Model of the cryptographic core of cunzhanggui:                         *)
(*   src/core/crypto/sm3_hash.py           SM3Hash (incremental hash)      *)
(*   src/core/crypto/sm2_key_generator.py  SM2KeyGenerator (curve, keys)   *)
(*   src/core/crypto/sm2_crypto.py         SM2Crypto (KDF, cipher, store)  *)
(*                                                                         *)
(* Bytes are integers 0..255, byte strings are sequences of bytes, and     *)
(* text (hex, base64) is a TLA+ string.  A 32-bit word is the pair         *)
(* <<hi, lo>> of its 16-bit halves, because the integers of the checker    *)
(* are 32-bit signed while the words of SM3 are 32-bit unsigned; every     *)
(* word operation below is the operation of the code taken modulo 2^32.    *)
(***************************************************************************)
EXTENDS Integers, Sequences, FiniteSets, TLC

(***************************************************************************)
(* Bit operations on bytes, halves and words                               *)
(***************************************************************************)
Pow2 == [i \in 0..16 |-> 2^i]

Bit(v, i) == (v \div Pow2[i]) % 2

\* the byte whose bits are f[0] (least significant) .. f[7]
BitSum(f) == f[0] + f[1] + f[2] + f[3] + f[4] + f[5] + f[6] + f[7]

\* Python's a ^ b on bytes, tabulated once
Xor8 ==
  [u \in 0..255 |-> [v \in 0..255 |->
     BitSum([i \in 0..7 |-> ((Bit(u, i) + Bit(v, i)) % 2) * Pow2[i]])]]

\* Python's a & b on bytes, tabulated once
And8 ==
  [u \in 0..255 |-> [v \in 0..255 |->
     BitSum([i \in 0..7 |-> (Bit(u, i) * Bit(v, i)) * Pow2[i]])]]

\* byte i (1 the upper, 2 the lower) of a 16-bit value
Byte(v, i) == IF i = 1 THEN v \div 256 ELSE v % 256

\* the 16-bit value of two bytes
Join16(h) == h[1] * 256 + h[2]

Xor16(u, v) == Join16([i \in 1..2 |-> Xor8[Byte(u, i)][Byte(v, i)]])

And16(u, v) == Join16([i \in 1..2 |-> And8[Byte(u, i)][Byte(v, i)]])

\* a 32-bit word is the pair <<upper 16 bits, lower 16 bits>>
Word(f) == <<f[1], f[2]>>

\* x ^ y on 32-bit words
WXor(x, y) == Word([i \in 1..2 |-> Xor16(x[i], y[i])])

\* x & y on 32-bit words
WAnd(x, y) == Word([i \in 1..2 |-> And16(x[i], y[i])])

\* x | y on 32-bit words: u | v = u + v - (u & v)
WOr(x, y) == Word([i \in 1..2 |-> x[i] + y[i] - And16(x[i], y[i])])

\* ~x & z with z a 32-bit word: the low 32 bits of ~x are 0xFFFFFFFF - x
WNotAnd(x, z) == WAnd(<<65535 - x[1], 65535 - x[2]>>, z)

\* (x + y) & 0xFFFFFFFF
WAdd(x, y) ==
  <<(x[1] + y[1] + ((x[2] + y[2]) \div 65536)) % 65536, (x[2] + y[2]) % 65536>>

\* the halves sw of a word rotated left by k < 16 bits
RotHalves(sw, k) ==
  IF k = 0 THEN sw
  ELSE <<(sw[1] % Pow2[16 - k]) * Pow2[k] + sw[2] \div Pow2[16 - k],
         (sw[2] % Pow2[16 - k]) * Pow2[k] + sw[1] \div Pow2[16 - k]>>

\* SM3Hash._rotl: ((value << amount) | (value >> (32 - amount))) & 0xFFFFFFFF
rotl(value, amount) ==
  RotHalves(IF amount >= 16 THEN <<value[2], value[1]>> ELSE value, amount % 16)

(***************************************************************************)
(* SM3Hash                                                                 *)
(***************************************************************************)
\* SM3Hash.IV: 7380166F 4914B2B9 172442D7 DA8A0600 A96F30BC 163138AA
\*             E38DEE4D B0FB0E4E
IV ==
  << <<29568, 5743>>, <<18708, 45753>>, <<5924, 17111>>, <<55946, 1536>>,
     <<43375, 12476>>, <<5681, 14506>>, <<58253, 61005>>, <<45307, 3662>> >>

ff(x, y, z, j) ==
  IF j < 16 THEN WXor(WXor(x, y), z)
  ELSE WOr(WOr(WAnd(x, y), WAnd(x, z)), WAnd(y, z))

gg(x, y, z, j) ==
  IF j < 16 THEN WXor(WXor(x, y), z)
  ELSE WOr(WAnd(x, y), WNotAnd(x, z))

p0(x) == WXor(WXor(x, rotl(x, 9)), rotl(x, 17))

p1(x) == WXor(WXor(x, rotl(x, 15)), rotl(x, 23))

\* _t with the constant of the first 16 rounds in every round
t_one_constant(j) == <<31180, 17689>>

\* SM3Hash._t: 0x79CC4519 for j < 16, 0x7A879D8A otherwise
t(j) == IF j < 16 THEN <<31180, 17689>> ELSE <<31367, 40330>>

\* struct.unpack('>16I', block): word i of a 64-byte block (i from 0)
BlockWord(block, i) ==
  <<block[4 * i + 1] * 256 + block[4 * i + 2],
    block[4 * i + 3] * 256 + block[4 * i + 4]>>

\* the body of the loop "for j in range(16, 68)" of _message_extension:
\* the word w[j] computed from the words before it (w[j+1] is the code's w[j])
ExtendWord(w, j) ==
  WXor(WXor(p1(WXor(WXor(w[j - 16 + 1], w[j - 9 + 1]), rotl(w[j - 3 + 1], 15))),
            rotl(w[j - 13 + 1], 7)),
       w[j - 6 + 1])

RECURSIVE ExtendW(_, _, _)
\* the loop "for j in range(lo, hi)" of _message_extension, run as its lower
\* half followed by its upper half
ExtendW(w, lo, hi) ==
  IF ~(Len(w) = lo /\ lo < hi) THEN w
  ELSE IF hi - lo = 1 THEN Append(w, ExtendWord(w, lo))
  ELSE ExtendW(ExtendW(w, lo, (lo + hi) \div 2), (lo + hi) \div 2, hi)

\* what _message_extension returns for the 68 words w
Extension(w) == [w |-> w, w_prime |-> [j \in 1..64 |-> WXor(w[j], w[j + 4])]]

\* SM3Hash._message_extension: the 68 words w and the 64 words w_prime
message_extension(block) ==
  Extension(ExtendW([i \in 1..16 |-> BlockWord(block, i - 1)], 16, 68))

\* the end of one round: TT1, TT2 and the new working variables
RoundAssign(V, j, ext, A12, SS1) ==
  <<WAdd(WAdd(WAdd(ff(V[1], V[2], V[3], j), V[4]), WXor(SS1, A12)),
         ext.w_prime[j + 1]),
    V[1], rotl(V[2], 9), V[3],
    p0(WAdd(WAdd(WAdd(gg(V[5], V[6], V[7], j), V[8]), SS1), ext.w[j + 1])),
    V[5], rotl(V[6], 19), V[7]>>

\* SS1 of one round, from rotl(A, 12)
RoundSS1(V, j, ext, A12) ==
  RoundAssign(V, j, ext, A12,
              rotl(WAdd(WAdd(A12, V[5]), rotl(t(j), j % 32)), 7))

\* the body of the loop "for j in range(64)" of _compress on the eight
\* working variables V = <<A,B,C,D,E,F,G,H>>
Round(V, j, ext) == RoundSS1(V, j, ext, rotl(V[1], 12))

RECURSIVE Rounds(_, _, _, _)
\* the loop "for j in range(lo, hi)" of _compress, run as its lower half
\* followed by its upper half
Rounds(V, lo, hi, ext) ==
  IF ~(Len(V) = 8 /\ lo < hi) THEN V
  ELSE IF hi - lo = 1 THEN Round(V, lo, ext)
  ELSE Rounds(Rounds(V, lo, (lo + hi) \div 2, ext), (lo + hi) \div 2, hi, ext)

\* the last loop of _compress: self.state[i] ^= V[i]
FeedForward(state, V) == [i \in 1..8 |-> WXor(state[i], V[i])]

\* _compress once the message is extended
CompressExtended(state, ext) ==
  IF Len(ext.w) = 68 THEN FeedForward(state, Rounds(state, 0, 64, ext))
  ELSE state

\* SM3Hash._compress: the state after compressing one 64-byte block
compress(state, block) == CompressExtended(state, message_extension(block))

\* Python's s[lo:hi] on a sequence, 0-based, bounds clamped to the sequence
Slice(s, lo, hi) ==
  IF lo >= hi \/ lo >= Len(s) THEN <<>>
  ELSE SubSeq(s, lo + 1, IF hi > Len(s) THEN Len(s) ELSE hi)

RECURSIVE CompressAll(_, _)
\* the loop "while len(buffer) >= 64: self._compress(buffer[:64]);
\* buffer = buffer[64:]" shared by update and digest
CompressAll(state, buffer) ==
  IF Len(state) = 8 /\ Len(buffer) >= 64
  THEN CompressAll(compress(state, Slice(buffer, 0, 64)),
                   Slice(buffer, 64, Len(buffer)))
  ELSE [state |-> state, buffer |-> buffer]

\* SM3Hash.reset: the hasher after construction
NewHasher == [state |-> IV, buffer |-> <<>>, counter |-> 0]

\* the hasher after the loop of update left r = [state, buffer]
Updated(r, counter) ==
  [state |-> r.state, buffer |-> r.buffer, counter |-> counter]

\* update with "self.buffer = data" in place of "self.buffer += data"
update_lost_buffer(h, data) ==
  Updated(CompressAll(h.state, data), h.counter + Len(data))

\* SM3Hash.update: the hasher after update(data)
update(h, data) ==
  Updated(CompressAll(h.state, h.buffer \o data), h.counter + Len(data))

\* "while len(temp_buffer) % 64 != 56: temp_buffer += b'\x00'": the loop adds
\* the least number of zero bytes that brings the length to 56 modulo 64
ZeroPad(buf) == buf \o [i \in 1..((56 - Len(buf)) % 64) |-> 0]

\* struct.pack('>Q', v) for the bit lengths of the model (v < 2^31)
PackQ(v) ==
  <<0, 0, 0, 0, (v \div 16777216) % 256, (v \div 65536) % 256,
    (v \div 256) % 256, v % 256>>

\* struct.pack('>8I', *state)
PackState(state) ==
  [i \in 1..32 |->
     Byte(state[((i - 1) \div 4) + 1][(((i - 1) % 4) \div 2) + 1],
          ((i - 1) % 2) + 1)]

\* what digest() stores back into self.buffer: the slice is taken of
\* temp_buffer as the compression loop left it, not of the saved buffer
DigestRestoredBuffer(temp_buffer, temp_counter) ==
  IF temp_counter % 64 # 0 THEN Slice(temp_buffer, 0, temp_counter % 64)
  ELSE <<>>

\* the end of digest: the result packed from the padded state r.state, and
\* the hasher with its saved state and counter put back
DigestReturn(h, r) ==
  [result |-> PackState(r.state),
   hasher |-> [state   |-> h.state,
               buffer  |-> DigestRestoredBuffer(r.buffer, h.counter),
               counter |-> h.counter]]

\* SM3Hash.digest: the value returned and the hasher it leaves behind
digest(h) ==
  DigestReturn(h, CompressAll(h.state,
                              ZeroPad(Append(h.buffer, 128)) \o PackQ(h.counter * 8)))

\* SM3Hash.hash / sm3_hash: one-shot hash of a byte string
sm3_hash(data) == digest(update(NewHasher, data)).result

HexDigits == <<"0", "1", "2", "3", "4", "5", "6", "7",
               "8", "9", "a", "b", "c", "d", "e", "f">>

RECURSIVE HexRange(_, _, _)
\* the hexadecimal digits of bytes lo..hi of bs
HexRange(bs, lo, hi) ==
  IF lo > hi THEN ""
  ELSE IF lo = hi
  THEN HexDigits[(bs[lo] \div 16) + 1] \o HexDigits[(bs[lo] % 16) + 1]
  ELSE HexRange(bs, lo, (lo + hi) \div 2) \o HexRange(bs, ((lo + hi) \div 2) + 1, hi)

\* bytes.hex(): two lower-case hexadecimal digits per byte
Hex(bs) == HexRange(bs, 1, Len(bs))

\* sm3_hexhash
sm3_hexhash(data) == Hex(sm3_hash(data))

(***************************************************************************)
(* Integers wider than the checker's: a non-negative Python int that comes *)
(* from 32 bytes of input is kept as its base-256 digits, most significant *)
(* first, without leading zero digits (zero is the empty sequence).  Two   *)
(* such sequences are equal exactly when the integers are.                 *)
(***************************************************************************)
\* bs without its leading zero bytes
StripZeros(bs) ==
  LET nonzero == {i \in 1..Len(bs) : bs[i] # 0}
  IN  IF nonzero = {} THEN <<>>
      ELSE SubSeq(bs, CHOOSE i \in nonzero : \A k \in nonzero : i <= k, Len(bs))

\* int.from_bytes(bs, 'big')
from_bytes(bs) == StripZeros(bs)

\* v.to_bytes(32, 'big'), for v < 2^256
to_bytes32(v) == [i \in 1..(32 - Len(v)) |-> 0] \o v

RECURSIVE BigOf(_)
\* the digits of a small integer n >= 0
BigOf(n) == IF n = 0 THEN <<>> ELSE Append(BigOf(n \div 256), n % 256)

RECURSIVE BigMod(_, _, _)
\* v % m for a digit sequence v and a small modulus m (acc: digits read so far)
BigMod(v, m, acc) ==
  IF acc \notin 0..(m - 1) \/ v = <<>> THEN acc
  ELSE IF Len(v) = 1 THEN (acc * 256 + v[1]) % m
  ELSE BigMod(SubSeq(v, (Len(v) \div 2) + 1, Len(v)), m,
              BigMod(SubSeq(v, 1, Len(v) \div 2), m, acc))

(***************************************************************************)
(* SM2Parameters.  The 256-bit recommended curve is replaced by a curve of *)
(* the same shape that the checker can enumerate: a prime field with       *)
(* p = 3 (mod 4), a = p - 3, and a base point G of prime order n < p       *)
(* (cofactor 1).  Coordinates keep their 32-byte encoding.                 *)
(***************************************************************************)
p == 11

a == p - 3

b == 10

gx == 2

gy == 1

n == 7

(***************************************************************************)
(* Exceptions: an operation that raises returns a record with the field    *)
(* "raised" naming the exception; callers hand it on as the code does.     *)
(***************************************************************************)
Raise(kind, what) == [raised |-> kind, what |-> what]

\* a value returned normally by an operation that can raise
Ok(v) == [value |-> v]

\* r is a raised exception (r is a record: a point, Ok(v) or Raise(..))
IsRaised(r) == "raised" \in DOMAIN r

(***************************************************************************)
(* SM2Point and SM2KeyGenerator                                            *)
(***************************************************************************)
\* the value None of an absent coordinate
None == <<-1>>

\* SM2Point(x, y) with x, y digit sequences
SM2Point(x, y) == [x |-> x, y |-> y, is_infinity |-> (x = None /\ y = None)]

\* SM2Point(): the point at infinity
Infinity == SM2Point(None, None)

\* a point with small coordinates
PointOf(x, y) == SM2Point(BigOf(x), BigOf(y))

\* the residue of a coordinate modulo p
Res(v) == BigMod(v, p, 0)

RECURSIVE extended_gcd(_, _)
\* the inner function of _mod_inverse: <<gcd, x, y>>
extended_gcd(aa, bb) ==
  IF aa = 0 THEN <<bb, 0, 1>>
  ELSE LET r == extended_gcd(bb % aa, aa)
       IN  <<r[1], r[3] - (bb \div aa) * r[2], r[2]>>

\* the end of _mod_inverse without the test of the gcd
InverseFrom_unchecked(r, m) == Ok(((r[2] % m) + m) % m)

\* the end of _mod_inverse, r = <<gcd, x, _>>
InverseFrom(r, m) ==
  IF r[1] # 1 THEN Raise("ValueError", "no modular inverse")
  ELSE Ok(((r[2] % m) + m) % m)

\* SM2KeyGenerator._mod_inverse
mod_inverse(aa, m) ==
  InverseFrom(extended_gcd(IF aa < 0 THEN ((aa % m) + m) % m ELSE aa, m), m)

\* x3 and y3 of _point_double for the slope lambda_val
DoubledPoint(x, y, lambda_val) ==
  PointOf((lambda_val * lambda_val - 2 * x) % p,
          (lambda_val * (x - ((lambda_val * lambda_val - 2 * x) % p)) - y) % p)

\* _point_double once the inverse of 2 * y is known
DoubleWithInverse(x, y, inv) ==
  IF IsRaised(inv) THEN inv
  ELSE DoubledPoint(x, y, ((3 * x * x + a) * inv.value) % p)

\* _point_double on the residues x, y
DoubleResidues(x, y) == DoubleWithInverse(x, y, mod_inverse(2 * y, p))

\* SM2KeyGenerator._point_double.  Coordinates enter the arithmetic through
\* their residues: every expression of the code ends in "% p".
point_double(pt) ==
  IF pt.is_infinity THEN pt ELSE DoubleResidues(Res(pt.x), Res(pt.y))

\* the chord point with y3 taken from x3 - x1
AddedPoint_mirrored(x1, y1, x2, lambda_val) ==
  PointOf((lambda_val * lambda_val - x1 - x2) % p,
          (lambda_val * (((lambda_val * lambda_val - x1 - x2) % p) - x1) - y1) % p)

\* x3 and y3 of _point_add for the slope lambda_val
AddedPoint(x1, y1, x2, lambda_val) ==
  PointOf((lambda_val * lambda_val - x1 - x2) % p,
          (lambda_val * (x1 - ((lambda_val * lambda_val - x1 - x2) % p)) - y1) % p)

\* _point_add once the inverse of x2 - x1 is known
AddWithInverse(x1, y1, x2, y2, inv) ==
  IF IsRaised(inv) THEN inv
  ELSE AddedPoint(x1, y1, x2, ((y2 - y1) * inv.value) % p)

\* _point_add on the residues of two points with different x
AddResidues(x1, y1, x2, y2) ==
  AddWithInverse(x1, y1, x2, y2, mod_inverse(x2 - x1, p))

\* SM2KeyGenerator._point_add
point_add(pt1, pt2) ==
  IF pt1.is_infinity THEN pt2
  ELSE IF pt2.is_infinity THEN pt1
  ELSE IF pt1.x = pt2.x
       THEN IF pt1.y = pt2.y THEN point_double(pt1) ELSE Infinity
  ELSE AddResidues(Res(pt1.x), Res(pt1.y), Res(pt2.x), Res(pt2.y))

RECURSIVE MultiplyLoop(_, _, _)
\* one pass of the loop "while k:" of _point_multiply, with the values
\* result1 and addend1 it assigns
MultiplyPass(k, result1, addend1) ==
  IF IsRaised(result1) THEN result1
  ELSE IF IsRaised(addend1) THEN addend1
  ELSE MultiplyLoop(k \div 2, result1, addend1)

\* the loop "while k:" of _point_multiply
MultiplyLoop(k, result, addend) ==
  IF k = 0 THEN result
  ELSE MultiplyPass(k, IF k % 2 = 1 THEN point_add(result, addend) ELSE result,
                    point_double(addend))

\* the multiplication that starts its sum at the point
point_multiply_off_by_one(k, point) ==
  IF k = 0 THEN Infinity
  ELSE IF k = 1 THEN point
  ELSE MultiplyLoop(k, point, point)

\* SM2KeyGenerator._point_multiply
point_multiply(k, point) ==
  IF k = 0 THEN Infinity
  ELSE IF k = 1 THEN point
  ELSE MultiplyLoop(k, Infinity, point)

\* y^2 = x^3 + a*x + b (mod p) for the residues x, y
SatisfiesEquation(x, y) == (y * y - (x * x * x + a * x + b)) % p = 0

\* the invariant of SM2Point: a point that is not the point at infinity
\* satisfies the curve equation
OnCurve(pt) == pt.is_infinity \/ SatisfiesEquation(Res(pt.x), Res(pt.y))

\* SM2KeyGenerator._compute_public_key
compute_public_key(private_key) == point_multiply(private_key, PointOf(gx, gy))

\* SM2KeyGenerator.public_key_to_bytes(public_key, compressed=False)
public_key_to_bytes(public_key) ==
  IF public_key.is_infinity THEN Raise("ValueError", "invalid public key point")
  ELSE <<4>> \o to_bytes32(public_key.x) \o to_bytes32(public_key.y)

\* SM2KeyGenerator.public_key_to_bytes(public_key, compressed)
PublicKeyBytes(public_key, compressed) ==
  IF public_key.is_infinity THEN Raise("ValueError", "invalid public key point")
  ELSE IF compressed
  THEN Ok(<<IF Res(public_key.y) % 2 = 0 THEN 2 ELSE 3>> \o to_bytes32(public_key.x))
  ELSE Ok(<<4>> \o to_bytes32(public_key.x) \o to_bytes32(public_key.y))

RECURSIVE ModPow(_, _, _)
\* pow(base, e, m)
ModPow(base, e, m) == IF e = 0 THEN 1 % m ELSE (base * ModPow(base, e - 1, m)) % m

\* the compressed branch without the choice by the prefix
Decompressed_unflipped(prefix, x, y) == SM2Point(x, BigOf(y))

\* the compressed branch of bytes_to_public_key from the root y on: p - y
\* when the parity of y is not the one the prefix names
Decompressed(prefix, x, y) ==
  SM2Point(x, BigOf(IF y % 2 # prefix - 2 THEN p - y ELSE y))

\* pow(x, 3, p) + a * x + b, modulo p
YSquared(x) == (ModPow(x, 3, p) + a * x + b) % p

\* SM2KeyGenerator.bytes_to_public_key
bytes_to_public_key(key_bytes) ==
  IF Len(key_bytes) = 33
  THEN Decompressed(key_bytes[1], from_bytes(Slice(key_bytes, 1, 33)),
                    ModPow(YSquared(Res(from_bytes(Slice(key_bytes, 1, 33)))),
                           (p + 1) \div 4, p))
  ELSE IF Len(key_bytes) = 65
  THEN IF key_bytes[1] # 4 THEN Raise("ValueError", "invalid public key format")
       ELSE SM2Point(from_bytes(Slice(key_bytes, 1, 33)),
                     from_bytes(Slice(key_bytes, 33, 65)))
  ELSE Raise("ValueError", "invalid public key length")

\* format(private_key, '064x')
Format064x(private_key) == Hex(to_bytes32(BigOf(private_key)))

\* SM2KeyGenerator.generate_key_pair_hex, for the scalar the random source drew
generate_key_pair_hex(private_key) ==
  [private_key |-> Format064x(private_key),
   public_key  |-> Hex(public_key_to_bytes(compute_public_key(private_key)))]

(***************************************************************************)
(* Text codecs: hexadecimal, base64 and UTF-8.  Hex and base64 text is a   *)
(* string; plain text is a sequence of Unicode code points.                *)
(***************************************************************************)
RECURSIVE FoldRange(_, _, _, _, _, _)
\* a loop over the items lo..hi of seq, in order: state = Step(state, item)
\* for each item until Stop(state) holds
FoldRange(Step(_, _), Stop(_), state, seq, lo, hi) ==
  IF lo > hi \/ Stop(state) THEN state
  ELSE IF lo = hi THEN Step(state, seq[lo])
  ELSE FoldRange(Step, Stop,
                 FoldRange(Step, Stop, state, seq, lo, (lo + hi) \div 2),
                 seq, ((lo + hi) \div 2) + 1, hi)

Fold(Step(_, _), Stop(_), state, seq) == FoldRange(Step, Stop, state, seq, 1, Len(seq))

\* the characters of a string, as a sequence of one-character strings
Chars(s) == [i \in 1..Len(s) |-> SubSeq(s, i, i)]

\* the character at 0-based position i of a string
CharAt(s, i) == SubSeq(s, i + 1, i + 1)

HexAlphabet == "0123456789abcdefABCDEF"

\* the value of a hexadecimal digit character
HexTable ==
  [c \in {CharAt(HexAlphabet, i) : i \in 0..21} |->
     LET i == CHOOSE i \in 0..21 : CharAt(HexAlphabet, i) = c
     IN  IF i < 16 THEN i ELSE i - 6]

\* the characters bytes.fromhex skips between two bytes
AsciiWhitespace == {" ", "\n", "\r", "\t"}

\* one character of bytes.fromhex; hi = -1 when no digit of the current
\* byte was read yet
FromHexStep(st, c) ==
  IF st.hi = -1 /\ c \in AsciiWhitespace THEN st
  ELSE IF c \notin DOMAIN HexTable THEN [st EXCEPT !.bad = TRUE]
  ELSE IF st.hi = -1 THEN [st EXCEPT !.hi = HexTable[c]]
  ELSE [st EXCEPT !.hi = -1, !.out = Append(st.out, st.hi * 16 + HexTable[c])]

FromHexStop(st) == st.bad

\* the end of bytes.fromhex: a character that is no digit, or half a byte
FromHexEnd(st) ==
  IF st.bad \/ st.hi # -1
  THEN Raise("ValueError", "non-hexadecimal number found in fromhex()")
  ELSE Ok(st.out)

\* bytes.fromhex(s)
fromhex(s) ==
  FromHexEnd(Fold(FromHexStep, FromHexStop,
                  [hi |-> -1, out |-> <<>>, bad |-> FALSE], Chars(s)))

IntOfHexStep(acc, c) == acc * 16 + HexTable[c]

IntOfHexStop(acc) == acc < 0

\* int(s, 16) for a text of hexadecimal digits whose value is small
IntOfHex(s) == Fold(IntOfHexStep, IntOfHexStop, 0, Chars(s))

B64Alphabet == "ABCDEFGHIJKLMNOPQRSTUVWXYZabcdefghijklmnopqrstuvwxyz0123456789+/"

\* the value of a base64 character
B64Table ==
  [c \in {CharAt(B64Alphabet, i) : i \in 0..63} |->
     CHOOSE i \in 0..63 : CharAt(B64Alphabet, i) = c]

B64Char(v) == CharAt(B64Alphabet, v)

\* the four characters that encode the g-th group of three bytes (g from 1)
B64Group(bs, g) ==
  LET i  == 3 * g - 2
      b1 == bs[i]
      b2 == IF i + 1 <= Len(bs) THEN bs[i + 1] ELSE 0
      b3 == IF i + 2 <= Len(bs) THEN bs[i + 2] ELSE 0
  IN  B64Char(b1 \div 4) \o B64Char((b1 % 4) * 16 + (b2 \div 16))
      \o (IF i + 1 <= Len(bs) THEN B64Char((b2 % 16) * 4 + (b3 \div 64)) ELSE "=")
      \o (IF i + 2 <= Len(bs) THEN B64Char(b3 % 64) ELSE "=")

RECURSIVE B64Groups(_, _, _)
B64Groups(bs, lo, hi) ==
  IF lo > hi THEN ""
  ELSE IF lo = hi THEN B64Group(bs, lo)
  ELSE B64Groups(bs, lo, (lo + hi) \div 2) \o B64Groups(bs, ((lo + hi) \div 2) + 1, hi)

\* base64.b64encode(bs).decode('utf-8')
b64encode(bs) == B64Groups(bs, 1, (Len(bs) + 2) \div 3)

\* one character of binascii.a2b_base64 in its default, non-strict mode:
\* characters outside the alphabet are skipped and a complete run of padding
\* ends the input
B64DecodeStep(st, c) ==
  IF c = "="
  THEN IF st.quad_pos >= 2 /\ st.quad_pos + st.pads + 1 >= 4
       THEN [st EXCEPT !.done = TRUE]
       ELSE IF st.quad_pos >= 2 THEN [st EXCEPT !.pads = st.pads + 1] ELSE st
  ELSE IF c \notin DOMAIN B64Table THEN st
  ELSE LET v == B64Table[c]
       IN  IF st.quad_pos = 0
           THEN [st EXCEPT !.quad_pos = 1, !.pads = 0, !.leftchar = v]
           ELSE IF st.quad_pos = 1
           THEN [st EXCEPT !.quad_pos = 2, !.pads = 0, !.leftchar = v % 16,
                           !.out = Append(st.out, st.leftchar * 4 + (v \div 16))]
           ELSE IF st.quad_pos = 2
           THEN [st EXCEPT !.quad_pos = 3, !.pads = 0, !.leftchar = v % 4,
                           !.out = Append(st.out, st.leftchar * 16 + (v \div 4))]
           ELSE [st EXCEPT !.quad_pos = 0, !.pads = 0, !.leftchar = 0,
                           !.out = Append(st.out, st.leftchar * 64 + v)]

B64DecodeStop(st) == st.done

\* the end of binascii.a2b_base64: an incomplete last quad is an error
B64DecodeEnd(st) ==
  IF st.done \/ st.quad_pos = 0 THEN Ok(st.out)
  ELSE IF st.quad_pos = 1
  THEN Raise("binascii.Error",
             "number of data characters cannot be 1 more than a multiple of 4")
  ELSE Raise("binascii.Error", "Incorrect padding")

\* base64.b64decode(s) for ASCII text s
b64decode(s) ==
  B64DecodeEnd(Fold(B64DecodeStep, B64DecodeStop,
                    [quad_pos |-> 0, pads |-> 0, leftchar |-> 0, out |-> <<>>,
                     done |-> FALSE], Chars(s)))

\* str.encode('utf-8') of one code point
EncodeCodePoint(cp) ==
  IF cp < 128 THEN <<cp>>
  ELSE IF cp < 2048 THEN <<192 + (cp \div 64), 128 + (cp % 64)>>
  ELSE IF cp < 65536
  THEN <<224 + (cp \div 4096), 128 + ((cp \div 64) % 64), 128 + (cp % 64)>>
  ELSE <<240 + (cp \div 262144), 128 + ((cp \div 4096) % 64),
         128 + ((cp \div 64) % 64), 128 + (cp % 64)>>

RECURSIVE utf8_encode(_)
\* plain_text.encode('utf-8') for text without surrogate code points
utf8_encode(text) ==
  IF text = <<>> THEN <<>> ELSE EncodeCodePoint(text[1]) \o utf8_encode(Tail(text))

IsCont(bs, i) == i <= Len(bs) /\ bs[i] >= 128 /\ bs[i] <= 191

InRange(bs, i, lo, hi) == i <= Len(bs) /\ bs[i] >= lo /\ bs[i] <= hi

RECURSIVE Utf8DecodeLoop(_, _, _)
\* i is the 1-based position of the next byte
Utf8DecodeLoop(bs, i, out) ==
  IF i > Len(bs) THEN Ok(out)
  ELSE LET c == bs[i]
           bad == Raise("UnicodeDecodeError", "invalid utf-8")
       IN  IF c < 128 THEN Utf8DecodeLoop(bs, i + 1, Append(out, c))
           ELSE IF c >= 194 /\ c <= 223
           THEN IF IsCont(bs, i + 1)
                THEN Utf8DecodeLoop(bs, i + 2,
                       Append(out, (c - 192) * 64 + (bs[i + 1] - 128)))
                ELSE bad
           ELSE IF c >= 224 /\ c <= 239
           THEN IF InRange(bs, i + 1,
                           IF c = 224 THEN 160 ELSE 128,
                           IF c = 237 THEN 159 ELSE 191) /\ IsCont(bs, i + 2)
                THEN Utf8DecodeLoop(bs, i + 3,
                       Append(out, (c - 224) * 4096 + (bs[i + 1] - 128) * 64
                                   + (bs[i + 2] - 128)))
                ELSE bad
           ELSE IF c >= 240 /\ c <= 244
           THEN IF InRange(bs, i + 1,
                           IF c = 240 THEN 144 ELSE 128,
                           IF c = 244 THEN 143 ELSE 191)
                   /\ IsCont(bs, i + 2) /\ IsCont(bs, i + 3)
                THEN Utf8DecodeLoop(bs, i + 4,
                       Append(out, (c - 240) * 262144 + (bs[i + 1] - 128) * 4096
                                   + (bs[i + 2] - 128) * 64 + (bs[i + 3] - 128)))
                ELSE bad
           ELSE bad

\* bs.decode('utf-8')
utf8_decode(bs) == Utf8DecodeLoop(bs, 1, <<>>)

(***************************************************************************)
(* SM2Crypto: KDF, the C1C3C2 cipher and the string interface              *)
(***************************************************************************)
\* i.to_bytes(4, 'big') for the counters of the model
be32(i) == <<0, 0, (i \div 256) % 256, i % 256>>

RECURSIVE KdfRounds(_, _, _, _)
\* the loop "for i in range(1, hash_rounds + 1)" of _kdf
KdfRounds(shared_key, i, hash_rounds, result) ==
  IF i > hash_rounds THEN result
  ELSE KdfRounds(shared_key, i + 1, hash_rounds,
                 result \o sm3_hash(shared_key \o be32(i)))

\* the derivation that keeps whole hash outputs
kdf_untruncated(shared_key, key_len) ==
  IF key_len = 0 THEN <<>>
  ELSE KdfRounds(shared_key, 1, (key_len + 31) \div 32, <<>>)

\* SM2Crypto._kdf
kdf(shared_key, key_len) ==
  IF key_len = 0 THEN <<>>
  ELSE Slice(KdfRounds(shared_key, 1, (key_len + 31) \div 32, <<>>), 0, key_len)

\* bytes(a ^ b for a, b in zip(xs, ys))
XorBytes(xs, ys) ==
  [i \in 1..(IF Len(xs) < Len(ys) THEN Len(xs) ELSE Len(ys)) |-> Xor8[xs[i]][ys[i]]]

\* pt.x.to_bytes(32, 'big') and pt.y.to_bytes(32, 'big') of a computed point:
\* an exception of the computation is handed on, and the point at infinity
\* has no coordinates to convert
CoordBytes(pt) ==
  IF IsRaised(pt) THEN pt
  ELSE IF pt.is_infinity
  THEN Raise("AttributeError", "'NoneType' object has no attribute 'to_bytes'")
  ELSE Ok([x |-> to_bytes32(pt.x), y |-> to_bytes32(pt.y)])

\* the parsing with the slices of x and y exchanged
PointFromKeyBytes_swapped(public_key_bytes) ==
  IF IsRaised(public_key_bytes) THEN public_key_bytes
  ELSE IF Len(public_key_bytes.value) # 65 \/ public_key_bytes.value[1] # 4
  THEN Raise("ValueError", "invalid public key format")
  ELSE SM2Point(from_bytes(Slice(public_key_bytes.value, 33, 65)),
                from_bytes(Slice(public_key_bytes.value, 1, 33)))

\* the check of the decoded public key and the point made of its two slices
PointFromKeyBytes(public_key_bytes) ==
  IF IsRaised(public_key_bytes) THEN public_key_bytes
  ELSE IF Len(public_key_bytes.value) # 65 \/ public_key_bytes.value[1] # 4
  THEN Raise("ValueError", "invalid public key format")
  ELSE SM2Point(from_bytes(Slice(public_key_bytes.value, 1, 33)),
                from_bytes(Slice(public_key_bytes.value, 33, 65)))

\* the public-key parsing at the head of both branches of _encrypt_c1c3c2
ParsePublicKeyHex(public_key_hex) == PointFromKeyBytes(fromhex(public_key_hex))

\* "return c1_bytes + c3 + c2" (c2 empty for the empty plaintext)
Envelope(c1, c3, c2) ==
  IF IsRaised(c1) THEN c1
  ELSE Ok(<<4>> \o c1.value.x \o c1.value.y \o c3 \o c2)

\* the loop entered for every plaintext, the empty one included
EncryptMasked_retry_on_empty(plain_text, c1, kp, encryption_key) ==
  IF encryption_key = [i \in 1..Len(plain_text) |-> 0]
  THEN [retry |-> TRUE]
  ELSE Envelope(c1, sm3_hash(kp.value.x \o plain_text \o kp.value.y),
                XorBytes(plain_text, encryption_key))

\* _encrypt_c1c3c2 from the derived key on: the "continue" of the loop when
\* the key of a non-empty plaintext is all zero, else C2, C3 and the result
EncryptMasked(plain_text, c1, kp, encryption_key) ==
  IF Len(plain_text) # 0 /\ encryption_key = [i \in 1..Len(plain_text) |-> 0]
  THEN [retry |-> TRUE]
  ELSE Envelope(c1, sm3_hash(kp.value.x \o plain_text \o kp.value.y),
                XorBytes(plain_text, encryption_key))

\* _encrypt_c1c3c2 from the coordinates of k*P on: no key is derived for
\* the empty plaintext
EncryptShared(plain_text, c1, kp) ==
  IF IsRaised(kp) THEN kp
  ELSE EncryptMasked(plain_text, c1, kp,
                     IF Len(plain_text) = 0 THEN <<>>
                     ELSE kdf(kp.value.x \o kp.value.y, Len(plain_text)))

\* _encrypt_c1c3c2 from the two scalar multiples on
EncryptPoints(plain_text, c1_point, kp_point) ==
  IF IsRaised(c1_point) THEN c1_point
  ELSE EncryptShared(plain_text, CoordBytes(c1_point), CoordBytes(kp_point))

\* _encrypt_c1c3c2 from the parsed public key on
EncryptFor(public_key_point, plain_text, k) ==
  IF IsRaised(public_key_point) THEN public_key_point
  ELSE EncryptPoints(plain_text, point_multiply(k, PointOf(gx, gy)),
                     point_multiply(k, public_key_point))

\* one pass of SM2Crypto._encrypt_c1c3c2 with the scalar k the random source
\* drew: Ok(ciphertext), a raised exception, or retry (the "continue" of the
\* loop, taken when the derived key is all zero)
encrypt_c1c3c2(public_key_hex, plain_text, k) ==
  EncryptFor(ParsePublicKeyHex(public_key_hex), plain_text, k)

IsRetry(r) == "retry" \in DOMAIN r

\* a comparison that lets every tag pass
TagMismatch_never(computed_c3, c3) == FALSE

\* a comparison of the first half of the tag only
TagMismatch_half(computed_c3, c3) == SubSeq(computed_c3, 1, 16) # SubSeq(c3, 1, 16)

\* the comparison "computed_c3 != c3" that guards both returns of
\* _decrypt_c1c3c2
TagMismatch(computed_c3, c3) == computed_c3 # c3

\* the end of both branches of _decrypt_c1c3c2: the tag of plain_text is
\* computed and compared, and plain_text is returned only when it matches
DecryptVerify(dc1, c3, plain_text) ==
  IF TagMismatch(sm3_hash(dc1.value.x \o plain_text \o dc1.value.y), c3)
  THEN Raise("ValueError", "ciphertext verification failed")
  ELSE Ok(plain_text)

\* _decrypt_c1c3c2 from the coordinates of d*C1 on: the empty plaintext for
\* an empty C2, else C2 unmasked with the derived key
DecryptShared(dc1, c3, c2) ==
  IF IsRaised(dc1) THEN dc1
  ELSE DecryptVerify(dc1, c3,
                     IF Len(c2) = 0 THEN <<>>
                     ELSE XorBytes(c2, kdf(dc1.value.x \o dc1.value.y, Len(c2))))

\* "c1_point = SM2Point(c1_x, c1_y)" of _decrypt_c1c3c2: the two coordinates
\* are read from the 64 bytes after the prefix and nothing else is examined
C1Point(c1_bytes) ==
  SM2Point(from_bytes(Slice(c1_bytes, 1, 33)), from_bytes(Slice(c1_bytes, 33, 65)))

\* _decrypt_c1c3c2 from the three slices of the ciphertext on
DecryptParts(private_key, c1_bytes, c3, c2) ==
  IF c1_bytes[1] # 4 THEN Raise("ValueError", "invalid C1 format")
  ELSE DecryptShared(CoordBytes(point_multiply(private_key, C1Point(c1_bytes))),
                     c3, c2)

\* the prefix examined before the length
decrypt_c1c3c2_prefix_first(private_key_hex, cipher_text) ==
  IF cipher_text = <<>> \/ cipher_text[1] # 4
  THEN Raise("ValueError", "invalid C1 format")
  ELSE IF Len(cipher_text) < 97 THEN Raise("ValueError", "ciphertext too short")
  ELSE DecryptParts(IntOfHex(private_key_hex), Slice(cipher_text, 0, 65),
                    Slice(cipher_text, 65, 97),
                    Slice(cipher_text, 97, Len(cipher_text)))

\* SM2Crypto._decrypt_c1c3c2
decrypt_c1c3c2(private_key_hex, cipher_text) ==
  IF Len(cipher_text) < 97 THEN Raise("ValueError", "ciphertext too short")
  ELSE DecryptParts(IntOfHex(private_key_hex), Slice(cipher_text, 0, 65),
                    Slice(cipher_text, 65, 97),
                    Slice(cipher_text, 97, Len(cipher_text)))

(***************************************************************************)
(* The key store (Redis) and the class methods of SM2Crypto.  A store is a *)
(* function from the names of the entries present to their values.  An     *)
(* operation that may generate a key pair takes the scalar d the random    *)
(* source would draw, and returns the store it leaves with its result.     *)
(***************************************************************************)
PRIVATE_KEY_NAME == "sm2:keys:private_key"

PUBLIC_KEY_NAME == "sm2:keys:public_key"

EmptyStore == [name \in {} |-> ""]

\* a set that is lost
RedisSet_dropped(store0, name, value) == store0

\* redis_client.set(name, value)
RedisSet(store0, name, value) ==
  [k \in DOMAIN store0 \cup {name} |-> IF k = name THEN value ELSE store0[k]]

\* a delete that removes nothing
RedisDelete_kept(store0, name) == store0

\* redis_client.delete(name)
RedisDelete(store0, name) == [k \in DOMAIN store0 \ {name} |-> store0[k]]

\* "not redis_client.get(name)": the entry is absent or empty
Missing(store0, name) == name \notin DOMAIN store0 \/ store0[name] = ""

\* the two redis_client.set calls of generate_key_pair and its return value
StorePair(store0, pair) ==
  [store |-> RedisSet(RedisSet(store0, PRIVATE_KEY_NAME, pair.private_key),
                      PUBLIC_KEY_NAME, pair.public_key),
   keys  |-> pair]

\* SM2Crypto.generate_key_pair
generate_key_pair(store0, d) == StorePair(store0, generate_key_pair_hex(d))

\* SM2Crypto.get_keys
get_keys(store0, d) ==
  IF Missing(store0, PRIVATE_KEY_NAME) \/ Missing(store0, PUBLIC_KEY_NAME)
  THEN generate_key_pair(store0, d)
  ELSE [store |-> store0,
        keys  |-> [private_key |-> store0[PRIVATE_KEY_NAME],
                   public_key  |-> store0[PUBLIC_KEY_NAME]]]

\* SM2Crypto.clear_keys
clear_keys(store0) ==
  RedisDelete(RedisDelete(store0, PRIVATE_KEY_NAME), PUBLIC_KEY_NAME)

\* SM2Crypto.get_public_key
get_public_key(store0, d) == get_keys(store0, d)

\* "return base64.b64encode(cipher_bytes).decode('utf-8')", with the store
\* get_keys left
EncodeCipher(store1, cipher_bytes) ==
  [store  |-> store1,
   result |-> IF IsRaised(cipher_bytes) \/ IsRetry(cipher_bytes) THEN cipher_bytes
              ELSE Ok(b64encode(cipher_bytes.value))]

\* SM2Crypto.encrypt after get_keys returned g
EncryptWithKeys(g, plain_text, k) ==
  EncodeCipher(g.store,
               encrypt_c1c3c2(g.keys.public_key, utf8_encode(plain_text), k))

\* SM2Crypto.encrypt, one pass of the loop of _encrypt_c1c3c2 with scalar k
encrypt(store0, plain_text, d, k) ==
  EncryptWithKeys(get_keys(store0, d), plain_text, k)

RECURSIVE RemoveRange(_, _, _, _)
RemoveRange(s, cs, lo, hi) ==
  IF lo > hi THEN ""
  ELSE IF lo = hi THEN (IF CharAt(s, lo) \in cs THEN "" ELSE CharAt(s, lo))
  ELSE RemoveRange(s, cs, lo, (lo + hi) \div 2)
       \o RemoveRange(s, cs, ((lo + hi) \div 2) + 1, hi)

\* s.replace(c, "") for each character c of the set cs
RemoveChars(s, cs) == RemoveRange(s, cs, 0, Len(s) - 1)

\* the prefix repair of decrypt's hexadecimal branch
AddMissingPrefix(cipher_bytes) ==
  IF Len(cipher_bytes) >= 64 /\ cipher_bytes[1] # 4
  THEN IF Len(cipher_bytes) = 99 THEN <<4>> \o cipher_bytes
       ELSE IF Len(cipher_bytes) = 96 THEN <<4>> \o cipher_bytes
       ELSE IF Len(cipher_bytes) >= 96 THEN <<4>> \o cipher_bytes
       ELSE cipher_bytes
  ELSE cipher_bytes

\* the inner try block of decrypt: bytes.fromhex raised, or the bytes with
\* their prefix repaired
DecodeHex(hx) ==
  IF IsRaised(hx)
  THEN Raise("ValueError", "neither valid base64 nor valid hexadecimal")
  ELSE Ok(AddMissingPrefix(hx.value))

\* the outer try block of decrypt: the bytes base64 gave, or the
\* hexadecimal branch when base64 raised
DecodeAfterBase64(cipher_text, b64) ==
  IF ~IsRaised(b64) THEN b64
  ELSE DecodeHex(fromhex(RemoveChars(cipher_text, {" ", "\n", "\r"})))

\* the decoding step of decrypt: base64 first, hexadecimal when base64 raises
DecodeCipherText(cipher_text) == DecodeAfterBase64(cipher_text, b64decode(cipher_text))

\* the ciphertext handed on as it came, with no rearrangement
ReorderC1C2C3_identity(cipher_bytes) == cipher_bytes

\* the rearrangement C1 || C2 || C3 -> C1 || C3 || C2 made by decrypt and by
\* _try_decrypt_c1c2c3_format
ReorderC1C2C3(cipher_bytes) ==
  Slice(cipher_bytes, 0, 65)
  \o Slice(cipher_bytes, Len(cipher_bytes) - 32, Len(cipher_bytes))
  \o Slice(cipher_bytes, 65, Len(cipher_bytes) - 32)

\* plain_bytes.decode('utf-8') applied to the result of _decrypt_c1c3c2
DecodePlain(plain_bytes) ==
  IF IsRaised(plain_bytes) THEN plain_bytes ELSE utf8_decode(plain_bytes.value)

\* the C1C2C3 attempt without its "except Exception: pass": an exception of
\* the attempt leaves decrypt
FirstAttempt_propagating(r) == [returned |-> TRUE, result |-> r]

\* the outcome of the C1C2C3 attempt of decrypt: it returns the text, or
\* its exception is swallowed and decrypt goes on
FirstAttempt(r) ==
  IF IsRaised(r) THEN [returned |-> FALSE] ELSE [returned |-> TRUE, result |-> r]

\* the first try block of decrypt: the C1C2C3 attempt.  [returned |-> FALSE]
\* when the block falls through (condition false or exception swallowed)
TryC1C2C3(private_key_hex, cipher_bytes) ==
  IF Len(cipher_bytes) >= 97 /\ cipher_bytes[1] = 4
  THEN FirstAttempt(DecodePlain(decrypt_c1c3c2(private_key_hex,
                                               ReorderC1C2C3(cipher_bytes))))
  ELSE [returned |-> FALSE]

\* what a decryption leaves: the store, Ok(text) or the exception raised,
\* and the layout whose verification produced the text
Answer(store1, r, layout) ==
  [store |-> store1, result |-> r,
   layout |-> IF IsRaised(r) THEN "none" ELSE layout]

\* decrypt after its C1C2C3 attempt: the text of the attempt, else the
\* native C1C3C2 decryption
DecryptAfterFirst(g, cipher_bytes, first) ==
  IF first.returned THEN Answer(g.store, first.result, "C1C2C3")
  ELSE Answer(g.store,
              DecodePlain(decrypt_c1c3c2(g.keys.private_key, cipher_bytes)),
              "C1C3C2")

\* decrypt after get_keys returned g and the input was decoded
DecryptDecoded(g, decoded) ==
  IF IsRaised(decoded) THEN Answer(g.store, decoded, "none")
  ELSE DecryptAfterFirst(g, decoded.value,
                         TryC1C2C3(g.keys.private_key, decoded.value))

\* SM2Crypto.decrypt
decrypt(store0, cipher_text, d) ==
  DecryptDecoded(get_keys(store0, d), DecodeCipherText(cipher_text))

\* SM2Crypto._try_decrypt_c1c2c3_format: Ok(text) for success, the exception
\* it caught for failure
try_decrypt_c1c2c3_format(cipher_bytes, private_key_hex) ==
  IF Len(cipher_bytes) < 97
  THEN Raise("ValueError", "ciphertext too short for C1C2C3")
  ELSE IF cipher_bytes[1] # 4 THEN Raise("ValueError", "invalid C1 format")
  ELSE DecodePlain(decrypt_c1c3c2(private_key_hex, ReorderC1C2C3(cipher_bytes)))

\* the hexadecimal step of decrypt_with_debug: the bytes are taken as decoded
DebugDecodeHex(hx) ==
  IF IsRaised(hx)
  THEN Raise("failure", "neither valid base64 nor valid hexadecimal")
  ELSE hx

\* the two decoding steps of decrypt_with_debug: base64, then hexadecimal
\* when base64 raised
DebugDecodeAfterBase64(cipher_text, b64) ==
  IF ~IsRaised(b64) THEN b64
  ELSE DebugDecodeHex(fromhex(RemoveChars(cipher_text, {" ", "\n", "\r"})))

\* "except Exception as e" of decrypt_with_debug: a dictionary with success
\* False and the message of e
Failure(r) == IF IsRaised(r) THEN Raise("failure", r.what) ELSE r

\* decrypt_with_debug after its C1C2C3 attempt
DebugAfterFirst(g, cipher_bytes, c1c2c3_result) ==
  IF ~IsRaised(c1c2c3_result) THEN Answer(g.store, c1c2c3_result, "C1C2C3")
  ELSE IF cipher_bytes[1] # 4
  THEN Answer(g.store, Raise("failure", "invalid C1 format"), "none")
  ELSE Answer(g.store,
              Failure(DecodePlain(decrypt_c1c3c2(g.keys.private_key, cipher_bytes))),
              "C1C3C2")

\* decrypt_with_debug after get_keys returned g and the input was decoded
DebugDecoded(g, decoded) ==
  IF IsRaised(decoded) THEN Answer(g.store, decoded, "none")
  ELSE IF Len(decoded.value) < 97
  THEN Answer(g.store, Raise("failure", "ciphertext too short"), "none")
  ELSE DebugAfterFirst(g, decoded.value,
                       try_decrypt_c1c2c3_format(decoded.value, g.keys.private_key))

\* SM2Crypto.decrypt_with_debug: Ok(plain_text) for a dictionary with success
\* True and the error for one with success False, and the "format" reported
decrypt_with_debug(store0, cipher_text, d) ==
  DebugDecoded(get_keys(store0, d),
               DebugDecodeAfterBase64(cipher_text, b64decode(cipher_text)))

\* the ciphertext C1 || C2 || C3 a client makes of the coordinates c1 of k*G
\* and kp of k*P and the message bytes m, in base64
ClientEnvelope(c1, kp, m) ==
  IF IsRaised(c1) THEN c1
  ELSE IF IsRaised(kp) THEN kp
  ELSE Ok(b64encode(<<4>> \o c1.value.x \o c1.value.y
                    \o XorBytes(m, kdf(kp.value.x \o kp.value.y, Len(m)))
                    \o sm3_hash(kp.value.x \o m \o kp.value.y)))

\* the client's encryption for the parsed public key
ClientEncryptFor(public_key_point, m, k) ==
  IF IsRaised(public_key_point) THEN public_key_point
  ELSE ClientEnvelope(CoordBytes(point_multiply(k, PointOf(gx, gy))),
                      CoordBytes(point_multiply(k, public_key_point)), m)

\* a client of get_public_key(): the ciphertext C1 || C2 || C3 of plain_text
\* for public_key_hex with scalar k, in base64
client_encrypt_c1c2c3(public_key_hex, plain_text, k) ==
  ClientEncryptFor(ParsePublicKeyHex(public_key_hex), utf8_encode(plain_text), k)

\* the dictionary get_key_info makes of the pair get_keys returned
KeyInfo(keys) ==
  [private_key        |-> keys.private_key,
   public_key         |-> keys.public_key,
   format             |-> "HEX",
   private_key_length |-> Len(keys.private_key),
   public_key_length  |-> Len(keys.public_key),
   algorithm          |-> "SM2",
   curve              |-> "sm2p256v1"]

\* get_key_info after get_keys returned g
KeyInfoOf(g) == [store |-> g.store, result |-> Ok(KeyInfo(g.keys))]

\* SM2Crypto.get_key_info
get_key_info(store0, d) == KeyInfoOf(get_keys(store0, d))

\* "except Exception as e" of test_encryption
TestFailure(store1, r, test_message) ==
  [store  |-> store1,
   result |-> Ok([success |-> FALSE, error |-> r.what, original |-> test_message])]

\* test_encryption after decrypt returned dr: the comparison and the report,
\* with the dictionary of get_key_info in it
TestReport(test_message, encrypted, dr) ==
  IF IsRaised(dr.result) THEN TestFailure(dr.store, dr.result, test_message)
  ELSE [store  |-> dr.store,
        result |-> Ok([success          |-> dr.result.value = test_message,
                       original         |-> test_message,
                       encrypted        |-> encrypted,
                       decrypted        |-> dr.result.value,
                       encrypted_length |-> Len(encrypted),
                       key_info         |-> get_key_info(dr.store, 1).result.value])]

\* test_encryption after encrypt returned e
TestDecrypt(test_message, e) ==
  IF IsRetry(e.result) THEN e
  ELSE IF IsRaised(e.result) THEN TestFailure(e.store, e.result, test_message)
  ELSE CHOOSE report \in {TestReport(test_message, e.result.value, dr) :
                            dr \in {decrypt(e.store, e.result.value, 1)}} : TRUE

\* SM2Crypto.test_encryption
test_encryption(store0, test_message, d, k) ==
  CHOOSE report \in {TestDecrypt(test_message, e) :
                       e \in {encrypt(store0, test_message, d, k)}} : TRUE

\* SM2KeyGenerator.verify_key_pair on the parsed public key: the public key
\* computed from private_key is compared with it
KeyPairMatches(private_key, public_key_point) ==
  IF IsRaised(public_key_point) THEN public_key_point
  ELSE Ok(compute_public_key(private_key) = public_key_point)

\* the try block of SM2Crypto.verify_key_pair after get_keys
VerifyParsed(keys, public_key_bytes) ==
  IF IsRaised(public_key_bytes) THEN public_key_bytes
  ELSE KeyPairMatches(IntOfHex(keys.private_key),
                      bytes_to_public_key(public_key_bytes.value))

\* "except Exception: return False" of SM2Crypto.verify_key_pair
ReturnFalse(r) == IF IsRaised(r) THEN Ok(FALSE) ELSE r

\* verify_key_pair after get_keys returned g
VerifyWithKeys(g) ==
  [store  |-> g.store,
   result |-> ReturnFalse(VerifyParsed(g.keys, fromhex(g.keys.public_key))),
   layout |-> "none"]

\* SM2Crypto.verify_key_pair
verify_key_pair(store0, d) == VerifyWithKeys(get_keys(store0, d))

\* the scalars the random source may be asked for by an operation on store0:
\* it is consulted only when get_keys finds an entry missing
Draws(store0) ==
  IF Missing(store0, PRIVATE_KEY_NAME) \/ Missing(store0, PUBLIC_KEY_NAME)
  THEN 1..(n - 1) ELSE {1}

\* bit number bit (0 the least significant) of the byte at 0-based position
\* i of cipher_bytes inverted
FlipBit(cipher_bytes, i, bit) ==
  [cipher_bytes EXCEPT ![i + 1] = Xor8[@][Pow2[bit]]]

(***************************************************************************)
(* State                                                                   *)
(***************************************************************************)
VARIABLES
  hasher,        \* one SM3Hash object: [state, buffer, counter]
  fed,           \* history: the bytes passed to update() since reset()
  nUpdates,      \* history: the number of update() calls since reset()
  nDigests,      \* history: the number of digest() calls since reset()
  dig,           \* the value returned by the last digest(), <<>> before it
  digPrev,       \* the value digest() returned just before the last one,
                 \* <<>> when an update() or reset() came between
  hasherBefore,  \* the hasher as the last digest() found it (the hasher
                 \* itself after any other operation)
  hashOp,        \* the last operation on the hasher
  hexOut,        \* the last call of sm3_hexhash: [data, hex]
  keyD,          \* a private scalar d; its public key is d * G
  plain,         \* the bytes handed to _encrypt_c1c3c2
  drawK,         \* the scalar k the last pass of _encrypt_c1c3c2 drew
  cipher,        \* what _encrypt_c1c3c2 returned
  recovered,     \* what _decrypt_c1c3c2 returned for cipher
  cphase,        \* "init", "encrypted" or "decrypted"
  store,         \* the Redis entries of the key pair
  sent,          \* the text (code points) whose ciphertext is on the wire
  wire,          \* the ciphertext string on its way to decrypt
  wireInfo,      \* who produced wire, in which encoding, and the bit flipped
  out,           \* the last decryption: [op, result, layout]
  outRef,        \* the decryption of the wire before it was re-encoded
  phase,         \* "idle", "sent" or "received"
  call,          \* per caller: the key-store call it is in, its position in
                 \* the call and the call's local variables
  nCalls,        \* history: the number of key-store calls begun
  overlapped,    \* history: some call began while another was running
  opsSeen,       \* history: the operations begun so far
  made,          \* history: the pairs generate_key_pair_hex has produced
  lastReturn,    \* history: the caller, operation and value of the last return
  calc           \* the last call of a function of the arithmetic layer:
                 \* [op, its arguments, result]

hashVars ==
  <<hasher, fed, nUpdates, nDigests, dig, digPrev, hasherBefore, hashOp, hexOut>>

cipherVars == <<keyD, plain, drawK, cipher, recovered, cphase>>

apiVars == <<store, sent, wire, wireInfo, out, outRef, phase>>

keyVars == <<call, nCalls, overlapped, opsSeen, made, lastReturn>>

calcVars == <<calc>>

vars == <<hashVars, cipherVars, apiVars, keyVars, calcVars>>

(***************************************************************************)
(* SpecHash: one SM3Hash object driven through reset/update/digest, and    *)
(* the one-shot sm3_hexhash                                                *)
(***************************************************************************)
MaxUpdates == 2

MaxDigests == 2

\* n bytes "abcdabcd..."
Abcd(len) == [i \in 1..len |-> 97 + ((i - 1) % 4)]

\* the chunks handed to update(): empty, short, and around the block size
Chunks == {<<>>, <<97>>, <<97, 98, 99>>, Abcd(63), Abcd(64), Abcd(65)}

NoDigest == <<>>

HashInit ==
  /\ hasher = NewHasher
  /\ fed = <<>>
  /\ nUpdates = 0
  /\ nDigests = 0
  /\ dig = NoDigest
  /\ digPrev = NoDigest
  /\ hasherBefore = NewHasher
  /\ hashOp = "init"
  /\ hexOut = [data |-> <<>>, hex |-> ""]

\* hasher.reset()
Reset ==
  /\ hashOp # "init"
  /\ hasher' = NewHasher
  /\ fed' = <<>>
  /\ nUpdates' = 0
  /\ nDigests' = 0
  /\ dig' = NoDigest
  /\ digPrev' = NoDigest
  /\ hasherBefore' = NewHasher
  /\ hashOp' = "reset"
  /\ hexOut' = [data |-> <<>>, hex |-> ""]
  /\ UNCHANGED <<cipherVars, calcVars, apiVars, keyVars>>

\* hasher.update(data)
Update(data) ==
  /\ hashOp # "hexhash"
  /\ nUpdates < MaxUpdates
  /\ hasher' = update(hasher, data)
  /\ hasherBefore' = hasher'
  /\ fed' = fed \o data
  /\ nUpdates' = nUpdates + 1
  /\ dig' = NoDigest
  /\ digPrev' = NoDigest
  /\ hashOp' = "update"
  /\ UNCHANGED <<nDigests, hexOut, cipherVars, calcVars, apiVars, keyVars>>

\* hasher.digest()
Digest ==
  /\ hashOp # "hexhash"
  /\ nDigests < MaxDigests
  /\ \E r \in {digest(hasher)} : hasher' = r.hasher /\ dig' = r.result
  /\ digPrev' = dig
  /\ nDigests' = nDigests + 1
  /\ hasherBefore' = hasher
  /\ hashOp' = "digest"
  /\ UNCHANGED <<fed, nUpdates, hexOut, cipherVars, calcVars, apiVars, keyVars>>

\* sm3_hexhash(data), which works on a hasher of its own
HexHash(data) ==
  /\ hashOp \in {"init", "reset"}
  /\ hexOut' = [data |-> data, hex |-> sm3_hexhash(data)]
  /\ hashOp' = "hexhash"
  /\ UNCHANGED <<hasher, fed, nUpdates, nDigests, dig, digPrev, hasherBefore,
                 cipherVars, apiVars, keyVars, calcVars>>

HashNext ==
  \/ Reset
  \/ \E data \in Chunks : Update(data)
  \/ Digest
  \/ \E data \in Chunks : HexHash(data)

\* the byte-level cipher at rest
CipherIdle ==
  /\ keyD = 1
  /\ plain = <<>>
  /\ drawK = 0
  /\ cipher = [none |-> TRUE]
  /\ recovered = [none |-> TRUE]
  /\ cphase = "init"

NoWire == [by |-> "none", form |-> "none", flip |-> <<>>]

NoOut == [op |-> "none"]

\* a caller that is in no key-store call
IdleCall == [op |-> "idle", pc |-> "idle"]

\* no return yet
NoReturn == [by |-> "none", op |-> "none"]

\* the callers of the key store, none of them in a call
Callers == {"A", "B"}

KeysIdle ==
  /\ call = [c \in Callers |-> IdleCall]
  /\ nCalls = 0
  /\ overlapped = FALSE
  /\ opsSeen = {}
  /\ made = {}
  /\ lastReturn = NoReturn

\* no call of the arithmetic layer yet
NoCalc == [op |-> "none"]

\* the string interface at rest, with the key entries of store0
ApiIdle(store0) ==
  /\ store = store0
  /\ sent = <<>>
  /\ wire = ""
  /\ wireInfo = NoWire
  /\ out = NoOut
  /\ outRef = NoOut
  /\ phase = "idle"
  /\ KeysIdle
  /\ calc = NoCalc

InitHash == HashInit /\ CipherIdle /\ ApiIdle(EmptyStore)

SpecHash == InitHash /\ [][HashNext]_vars

(***************************************************************************)
(* SpecCipher: _encrypt_c1c3c2 followed by _decrypt_c1c3c2 on byte         *)
(* strings, for every key pair and every scalar k of the curve             *)
(***************************************************************************)
\* the range [1, n-1] of _generate_private_key
Scalars == 1..(n - 1)

\* plaintexts: empty, one byte, two bytes that are no UTF-8, and 33 bytes
\* (two KDF rounds)
RawPlains == {<<>>, <<97>>, <<255, 0>>, Abcd(33)}

CipherInit ==
  /\ keyD \in Scalars
  /\ plain \in RawPlains
  /\ drawK = 0
  /\ cipher = [none |-> TRUE]
  /\ recovered = [none |-> TRUE]
  /\ cphase = "init"

\* _encrypt_c1c3c2(public key of keyD, plain): one pass of its loop, which
\* starts over when the pass ends in "continue"
EncryptRaw(k) ==
  /\ cphase = "init"
  /\ \E r \in {encrypt_c1c3c2(generate_key_pair_hex(keyD).public_key, plain, k)} :
       IF IsRetry(r) THEN UNCHANGED cipherVars
       ELSE /\ cipher' = r
            /\ drawK' = k
            /\ cphase' = "encrypted"
            /\ UNCHANGED <<keyD, plain, recovered>>
  /\ UNCHANGED <<hashVars, apiVars, keyVars, calcVars>>

\* _decrypt_c1c3c2(private key keyD, cipher)
DecryptRaw ==
  /\ cphase = "encrypted"
  /\ ~IsRaised(cipher)
  /\ recovered' = decrypt_c1c3c2(Format064x(keyD), cipher.value)
  /\ cphase' = "decrypted"
  /\ UNCHANGED <<keyD, plain, drawK, cipher, hashVars, apiVars, keyVars, calcVars>>

CipherNext ==
  \/ \E k \in Scalars : EncryptRaw(k)
  \/ DecryptRaw

InitCipher == CipherInit /\ HashInit /\ ApiIdle(EmptyStore)

SpecCipher == InitCipher /\ [][CipherNext]_vars

(***************************************************************************)
(* The string interface: key management, encrypt, a client that encrypts   *)
(* for get_public_key() in the layout C1 || C2 || C3, and decrypt          *)
(***************************************************************************)
\* texts as sequences of code points: "", "a", and a text of a two-byte and
\* a three-byte character
Texts == {<<>>, <<97>>, <<233, 8364>>}

\* what the caller of a decryption sees: the operation called, Ok(text) or
\* the error, and the layout reported
Outcome(op, r) == [op |-> op, result |-> r.result, layout |-> r.layout]

\* SM2Crypto.generate_key_pair()
GenerateKeyPair(d) ==
  /\ phase = "idle"
  /\ store' = generate_key_pair(store, d).store
  /\ UNCHANGED <<sent, wire, wireInfo, out, outRef, phase, hashVars, cipherVars, calcVars, keyVars>>

\* SM2Crypto.clear_keys()
ClearKeys ==
  /\ phase = "idle"
  /\ store' = clear_keys(store)
  /\ UNCHANGED <<sent, wire, wireInfo, out, outRef, phase, hashVars, cipherVars, calcVars, keyVars>>

\* SM2Crypto.encrypt(text); a pass of the encryption loop that ends in
\* "continue" leaves everything as it was
Encrypt(text, d, k) ==
  /\ phase = "idle"
  /\ \E r \in {encrypt(store, text, d, k)} :
       IF IsRetry(r.result) THEN UNCHANGED apiVars
       ELSE /\ ~IsRaised(r.result)
            /\ store' = r.store
            /\ sent' = text
            /\ wire' = r.result.value
            /\ wireInfo' = [by |-> "encrypt", form |-> "base64", flip |-> <<>>]
            /\ phase' = "sent"
            /\ UNCHANGED <<out, outRef>>
  /\ UNCHANGED <<hashVars, cipherVars, calcVars, keyVars>>

\* a client encrypts text for the public key it was given
ClientEncrypt(text, k) ==
  /\ phase = "idle"
  /\ ~Missing(store, PUBLIC_KEY_NAME)
  /\ \E r \in {client_encrypt_c1c2c3(store[PUBLIC_KEY_NAME], text, k)} :
       /\ ~IsRaised(r)
       /\ wire' = r.value
  /\ sent' = text
  /\ wireInfo' = [by |-> "client", form |-> "base64", flip |-> <<>>]
  /\ phase' = "sent"
  /\ UNCHANGED <<store, out, outRef, hashVars, cipherVars, calcVars, keyVars>>

\* SM2Crypto.decrypt(wire)
Decrypt(d) ==
  /\ phase = "sent"
  /\ \E r \in {decrypt(store, wire, d)} :
       /\ store' = r.store
       /\ out' = Outcome("decrypt", r)
  /\ phase' = "received"
  /\ UNCHANGED <<sent, wire, wireInfo, outRef, hashVars, cipherVars, calcVars, keyVars>>

\* SM2Crypto.decrypt_with_debug(wire)
DecryptWithDebug(d) ==
  /\ phase = "sent"
  /\ \E r \in {decrypt_with_debug(store, wire, d)} :
       /\ store' = r.store
       /\ out' = Outcome("decrypt_with_debug", r)
  /\ phase' = "received"
  /\ UNCHANGED <<sent, wire, wireInfo, outRef, hashVars, cipherVars, calcVars, keyVars>>

\* _decrypt_c1c3c2(stored private key, the bytes of wire)
DecryptBytes ==
  /\ phase = "sent"
  /\ wireInfo.form = "base64"
  /\ ~Missing(store, PRIVATE_KEY_NAME)
  /\ out' = Outcome("_decrypt_c1c3c2",
                     Answer(store, decrypt_c1c3c2(store[PRIVATE_KEY_NAME],
                                                  b64decode(wire).value),
                            "C1C3C2"))
  /\ phase' = "received"
  /\ UNCHANGED <<store, sent, wire, wireInfo, outRef, hashVars, cipherVars, calcVars, keyVars>>

\* the caller is done with the message
NextMessage ==
  /\ phase = "received"
  /\ sent' = <<>>
  /\ wire' = ""
  /\ wireInfo' = NoWire
  /\ out' = NoOut
  /\ outRef' = NoOut
  /\ phase' = "idle"
  /\ UNCHANGED <<store, hashVars, cipherVars, calcVars, keyVars>>

Next ==
  \/ \E d \in Scalars : GenerateKeyPair(d)
  \/ ClearKeys
  \/ \E text \in Texts, d \in Draws(store), k \in Scalars : Encrypt(text, d, k)
  \/ \E text \in Texts, k \in Scalars : ClientEncrypt(text, k)
  \/ \E d \in Draws(store) : Decrypt(d)
  \/ NextMessage

Init == HashInit /\ CipherIdle /\ ApiIdle(EmptyStore)

Spec == Init /\ [][Next]_vars

(***************************************************************************)
(* SpecTamper: one bit of a valid ciphertext is inverted on the wire, and  *)
(* the ciphertext is handed to decrypt, decrypt_with_debug or              *)
(* _decrypt_c1c3c2                                                         *)
(***************************************************************************)
\* the private scalars, the scalars k and the texts of the tampering runs
TamperKeys == {3}

TamperScalars == {5}

TamperTexts == {<<>>, <<233>>}

\* the 0-based positions of the bytes whose eight bits are inverted in turn,
\* in a ciphertext of len bytes: the prefix, the first and last byte of each
\* coordinate of C1, the bytes at both ends of the two parts that follow
\* C1 in either layout, and the last byte
FlipBytes(len) == {i \in {0, 1, 32, 33, 64, 65, 96, 97, len - 1} : i < len}

\* the ciphertext on the wire with one bit inverted
Tamper(i, bit) ==
  /\ phase = "sent"
  /\ wireInfo.form = "base64"
  /\ wireInfo.flip = <<>>
  /\ \E cipher_bytes \in {b64decode(wire).value} :
       /\ i \in FlipBytes(Len(cipher_bytes))
       /\ wire' = b64encode(FlipBit(cipher_bytes, i, bit))
  /\ wireInfo' = [wireInfo EXCEPT !.flip = <<i, bit>>]
  /\ UNCHANGED <<store, sent, out, outRef, phase, hashVars, cipherVars, calcVars, keyVars>>

TamperNext ==
  \/ \E text \in TamperTexts, d \in Draws(store), k \in TamperScalars :
       Encrypt(text, d, k)
  \/ \E text \in TamperTexts, k \in TamperScalars : ClientEncrypt(text, k)
  \/ \E i \in 0..99, bit \in 0..7 : Tamper(i, bit)
  \/ \E d \in Draws(store) : Decrypt(d)
  \/ \E d \in Draws(store) : DecryptWithDebug(d)
  \/ DecryptBytes

TamperInit ==
  /\ HashInit /\ CipherIdle
  /\ \E d \in TamperKeys : ApiIdle(generate_key_pair(EmptyStore, d).store)

SpecTamper == TamperInit /\ [][TamperNext]_vars

(***************************************************************************)
(* SpecHex: a ciphertext that decrypt accepted in base64 is sent again as  *)
(* hexadecimal text, with or without its leading 0x04 byte                 *)
(***************************************************************************)
\* the private scalars and the texts of the hexadecimal runs; the
\* ciphertexts are 97, 98 and 100 bytes long
HexKeys == {3}

HexTexts == {<<>>, <<97>>, <<97, 98, 99>>}

\* the sender encodes the same ciphertext bytes as hexadecimal text, all of
\* them or all but the first, and the outcome of the base64 transport is kept
ReencodeHex(strip) ==
  /\ phase = "received"
  /\ out.op = "decrypt"
  /\ wireInfo.form = "base64"
  /\ \E cipher_bytes \in {b64decode(wire).value} :
       wire' = Hex(Slice(cipher_bytes, IF strip THEN 1 ELSE 0, Len(cipher_bytes)))
  /\ wireInfo' = [wireInfo EXCEPT !.form = IF strip THEN "hex-stripped" ELSE "hex"]
  /\ outRef' = out
  /\ out' = NoOut
  /\ phase' = "sent"
  /\ UNCHANGED <<store, sent, hashVars, cipherVars, calcVars, keyVars>>

HexNext ==
  \/ \E text \in HexTexts, d \in Draws(store), k \in Scalars : Encrypt(text, d, k)
  \/ \E text \in HexTexts, k \in Scalars : ClientEncrypt(text, k)
  \/ \E d \in Draws(store) : Decrypt(d)
  \/ \E strip \in BOOLEAN : ReencodeHex(strip)

HexInit ==
  /\ HashInit /\ CipherIdle
  /\ \E d \in HexKeys : ApiIdle(generate_key_pair(EmptyStore, d).store)

SpecHex == HexInit /\ [][HexNext]_vars

(***************************************************************************)
(* SpecKeys: get_keys, generate_key_pair and clear_keys called by          *)
(* concurrent callers; every access to the store is one step               *)
(***************************************************************************)
\* the number of calls a run begins
MaxCalls == 3

\* the private scalars _generate_private_key draws in these runs
KeyScalars == {2, 5}

\* redis_client.get(name): None for an absent entry
RedisGet(store0, name) ==
  IF name \in DOMAIN store0 THEN [found |-> TRUE, value |-> store0[name]]
  ELSE [found |-> FALSE]

\* "not private_key_bytes": None or empty
Falsy(r) == ~r.found \/ r.value = ""

\* the callers other than c that are inside a call
Running(c) == {o \in Callers \ {c} : call[o].pc \notin {"idle", "returned"}}

\* the first position of each operation
FirstStep(op) ==
  IF op = "get_keys" THEN "get_private"
  ELSE IF op = "generate_key_pair" THEN "generate"
  ELSE "delete_private"

\* caller c enters get_keys, generate_key_pair or clear_keys
Begin(c, op) ==
  /\ call[c].pc \in {"idle", "returned"}
  /\ nCalls < MaxCalls
  /\ call' = [call EXCEPT ![c] = [op |-> op, pc |-> FirstStep(op), wrote |-> FALSE,
                                  before |-> store, prev |-> lastReturn]]
  /\ nCalls' = nCalls + 1
  /\ overlapped' = (overlapped \/ Running(c) # {})
  /\ opsSeen' = opsSeen \cup {op}
  /\ UNCHANGED <<made, lastReturn, apiVars, hashVars, cipherVars, calcVars>>

\* caller c returns value from its call
Returned(c, value) ==
  /\ lastReturn' = [by |-> c, op |-> call[c].op, keys |-> value]
  /\ UNCHANGED <<nCalls, overlapped, opsSeen>>

\* the record r at position pc
At(r, pc) == [r EXCEPT !.pc = pc]

\* get_keys: private_key_bytes = redis_client.get(cls.PRIVATE_KEY_NAME)
GetPrivate(c) ==
  /\ call[c].pc = "get_private"
  /\ call' = [call EXCEPT ![c] =
                At(@, "get_public") @@
                  [private_key_bytes |-> RedisGet(store, PRIVATE_KEY_NAME)]]
  /\ UNCHANGED <<nCalls, overlapped, opsSeen, made, lastReturn>>
  /\ UNCHANGED <<apiVars, hashVars, cipherVars, calcVars>>

\* get_keys: public_key_bytes = redis_client.get(cls.PUBLIC_KEY_NAME), the
\* test of both values, and the return of the decoded values when both are
\* there
GetPublicFound(c, public_key_bytes) ==
  IF Falsy(call[c].private_key_bytes) \/ Falsy(public_key_bytes)
  THEN /\ call' = [call EXCEPT ![c] = At(@, "generate")]
       /\ UNCHANGED <<nCalls, overlapped, opsSeen, lastReturn>>
  ELSE /\ call' = [call EXCEPT ![c] =
                     At(@, "returned") @@
                       [result |-> [private_key |-> call[c].private_key_bytes.value,
                                    public_key  |-> public_key_bytes.value]]]
       /\ Returned(c, [private_key |-> call[c].private_key_bytes.value,
                       public_key  |-> public_key_bytes.value])

GetPublic(c) ==
  /\ call[c].pc = "get_public"
  /\ GetPublicFound(c, RedisGet(store, PUBLIC_KEY_NAME))
  /\ UNCHANGED <<made, apiVars, hashVars, cipherVars, calcVars>>

\* generate_key_pair: generator.generate_key_pair_hex() with the private
\* scalar d drawn
Generate(c, d) ==
  /\ call[c].pc = "generate"
  /\ \E pair \in {generate_key_pair_hex(d)} :
       /\ call' = [call EXCEPT ![c] = At(@, "set_private") @@ [pair |-> pair]]
       /\ made' = made \cup {pair}
  /\ UNCHANGED <<nCalls, overlapped, opsSeen, lastReturn>>
  /\ UNCHANGED <<apiVars, hashVars, cipherVars, calcVars>>

\* generate_key_pair: redis_client.set(cls.PRIVATE_KEY_NAME, private_hex)
SetPrivate(c) ==
  /\ call[c].pc = "set_private"
  /\ store' = RedisSet(store, PRIVATE_KEY_NAME, call[c].pair.private_key)
  /\ call' = [call EXCEPT ![c] = [At(@, "set_public") EXCEPT !.wrote = TRUE]]
  /\ UNCHANGED <<nCalls, overlapped, opsSeen, made, lastReturn>>
  /\ UNCHANGED <<sent, wire, wireInfo, out, outRef, phase, hashVars, cipherVars, calcVars>>

\* generate_key_pair: redis_client.set(cls.PUBLIC_KEY_NAME, public_hex) and
\* the return of the pair, through get_keys when get_keys made the call
SetPublic(c) ==
  /\ call[c].pc = "set_public"
  /\ store' = RedisSet(store, PUBLIC_KEY_NAME, call[c].pair.public_key)
  /\ call' = [call EXCEPT ![c] = At(@, "returned") @@ [result |-> call[c].pair]]
  /\ Returned(c, call[c].pair)
  /\ UNCHANGED <<made, sent, wire, wireInfo, out, outRef, phase, hashVars, cipherVars, calcVars>>

\* clear_keys: redis_client.delete(cls.PRIVATE_KEY_NAME)
DeletePrivate(c) ==
  /\ call[c].pc = "delete_private"
  /\ store' = RedisDelete(store, PRIVATE_KEY_NAME)
  /\ call' = [call EXCEPT ![c] = At(@, "delete_public")]
  /\ UNCHANGED <<nCalls, overlapped, opsSeen, made, lastReturn>>
  /\ UNCHANGED <<sent, wire, wireInfo, out, outRef, phase, hashVars, cipherVars, calcVars>>

\* clear_keys: redis_client.delete(cls.PUBLIC_KEY_NAME) and the return
DeletePublic(c) ==
  /\ call[c].pc = "delete_public"
  /\ store' = RedisDelete(store, PUBLIC_KEY_NAME)
  /\ call' = [call EXCEPT ![c] = At(@, "returned")]
  /\ Returned(c, [private_key |-> "", public_key |-> ""])
  /\ UNCHANGED <<made, sent, wire, wireInfo, out, outRef, phase, hashVars, cipherVars, calcVars>>

KeysNext ==
  \/ \E c \in Callers, op \in {"get_keys", "generate_key_pair", "clear_keys"} :
       Begin(c, op)
  \/ \E c \in Callers : GetPrivate(c)
  \/ \E c \in Callers : GetPublic(c)
  \/ \E c \in Callers, d \in KeyScalars : Generate(c, d)
  \/ \E c \in Callers : SetPrivate(c)
  \/ \E c \in Callers : SetPublic(c)
  \/ \E c \in Callers : DeletePrivate(c)
  \/ \E c \in Callers : DeletePublic(c)

KeysInit == HashInit /\ CipherIdle /\ ApiIdle(EmptyStore)

SpecKeys == KeysInit /\ [][KeysNext]_vars

(***************************************************************************)
(* SpecInfo: the public class methods of SM2Crypto that return keys or     *)
(* reports, called one after the other                                     *)
(***************************************************************************)
\* a call that returned value and left store1
Reply(op, store1, value) ==
  /\ store' = store1
  /\ out' = [op |-> op, result |-> value, layout |-> "none"]
  /\ phase' = "received"
  /\ UNCHANGED <<sent, wire, wireInfo, outRef, hashVars, cipherVars, calcVars, keyVars>>

\* SM2Crypto.get_public_key()
GetPublicKey(d) ==
  /\ phase = "idle"
  /\ \E g \in {get_public_key(store, d)} :
       Reply("get_public_key", g.store, Ok(g.keys.public_key))

\* SM2Crypto.get_key_info()
GetKeyInfo(d) ==
  /\ phase = "idle"
  /\ \E r \in {get_key_info(store, d)} : Reply("get_key_info", r.store, r.result)

\* SM2Crypto.test_encryption(text)
TestEncryption(text, d, k) ==
  /\ phase = "idle"
  /\ \E r \in {test_encryption(store, text, d, k)} :
       /\ ~IsRetry(r.result)
       /\ Reply("test_encryption", r.store, r.result)

InfoNext ==
  \/ \E d \in Scalars : GenerateKeyPair(d)
  \/ ClearKeys
  \/ \E d \in Draws(store) : GetPublicKey(d)
  \/ \E d \in Draws(store) : GetKeyInfo(d)
  \/ \E text \in Texts, d \in Draws(store), k \in Scalars : TestEncryption(text, d, k)
  \/ NextMessage

InfoInit == HashInit /\ CipherIdle /\ ApiIdle(EmptyStore)

SpecInfo == InfoInit /\ [][InfoNext]_vars

(***************************************************************************)
(* SpecMalformed: ciphertexts cut short, with an altered prefix byte, or   *)
(* both, handed to decrypt and to _decrypt_c1c3c2 in base64 and then in    *)
(* hexadecimal                                                             *)
(***************************************************************************)
\* the lengths a ciphertext is cut to
CutLengths == {0, 1, 64, 65, 96}

\* only the first cut bytes of the ciphertext are sent
Truncate(cut) ==
  /\ phase = "sent"
  /\ wireInfo.form = "base64"
  /\ "cut" \notin DOMAIN wireInfo
  /\ \E cipher_bytes \in {b64decode(wire).value} :
       /\ cut < Len(cipher_bytes)
       /\ wire' = b64encode(Slice(cipher_bytes, 0, cut))
  /\ wireInfo' = wireInfo @@ [cut |-> cut]
  /\ UNCHANGED <<store, sent, out, outRef, phase, hashVars, cipherVars, calcVars, keyVars>>

MalformedNext ==
  \/ \E text \in TamperTexts, d \in Draws(store), k \in TamperScalars :
       Encrypt(text, d, k)
  \/ \E text \in TamperTexts, k \in TamperScalars : ClientEncrypt(text, k)
  \/ \E cut \in CutLengths : Truncate(cut)
  \/ \E bit \in 0..7 : Tamper(0, bit)
  \/ \E d \in Draws(store) : Decrypt(d)
  \/ DecryptBytes
  \/ \E strip \in BOOLEAN : ReencodeHex(strip)

MalformedInit ==
  /\ HashInit /\ CipherIdle
  /\ \E d \in TamperKeys : ApiIdle(generate_key_pair(EmptyStore, d).store)

SpecMalformed == MalformedInit /\ [][MalformedNext]_vars

(***************************************************************************)
(* SpecLayout: ciphertexts in both layouts, those of clients also of bytes *)
(* that are no UTF-8 text, as they are or with the lowest bit of the y     *)
(* coordinate of C1 inverted, handed to decrypt and decrypt_with_debug     *)
(***************************************************************************)
\* the byte strings a client encrypts as they are
ClientBytes == {<<255>>, <<97, 128>>}

\* a client encrypts plain_bytes, which need not be UTF-8, for the public
\* key it was given
ClientEncryptBytes(plain_bytes, k) ==
  /\ phase = "idle"
  /\ ~Missing(store, PUBLIC_KEY_NAME)
  /\ \E r \in {ClientEncryptFor(ParsePublicKeyHex(store[PUBLIC_KEY_NAME]),
                                plain_bytes, k)} :
       /\ ~IsRaised(r)
       /\ wire' = r.value
  /\ sent' = plain_bytes
  /\ wireInfo' = [by |-> "client-bytes", form |-> "base64", flip |-> <<>>]
  /\ phase' = "sent"
  /\ UNCHANGED <<store, out, outRef, hashVars, cipherVars, calcVars, keyVars>>

\* the bits inverted in the last byte of the y coordinate of C1
LowBits == {0}

LayoutNext ==
  \/ \E text \in Texts, d \in Draws(store), k \in Scalars : Encrypt(text, d, k)
  \/ \E text \in Texts, k \in Scalars : ClientEncrypt(text, k)
  \/ \E plain_bytes \in ClientBytes, k \in Scalars : ClientEncryptBytes(plain_bytes, k)
  \/ \E bit \in LowBits : Tamper(64, bit)
  \/ \E d \in Draws(store) : Decrypt(d)
  \/ \E d \in Draws(store) : DecryptWithDebug(d)

LayoutInit ==
  /\ HashInit /\ CipherIdle
  /\ \E d \in TamperKeys : ApiIdle(generate_key_pair(EmptyStore, d).store)

SpecLayout == LayoutInit /\ [][LayoutNext]_vars

(***************************************************************************)
(* SpecQuery: the operations that only ask (decrypt, decrypt_with_debug,   *)
(* verify_key_pair) on stores with and without a key pair, and             *)
(* decrypt_with_debug called on what decrypt was just called on            *)
(***************************************************************************)
\* the scalars the random source gives when a key pair is generated
DrawnKeys == {3, 5}

QueryTexts == {<<>>, <<97>>}

QueryCuts == {64, 96}

\* SM2Crypto.clear_keys() called by another request while a message is on
\* its way
ClearKeysNow ==
  /\ phase # "received"
  /\ store # EmptyStore
  /\ store' = clear_keys(store)
  /\ UNCHANGED <<sent, wire, wireInfo, out, outRef, phase, hashVars, cipherVars,
                 calcVars, keyVars>>

\* SM2Crypto.verify_key_pair()
VerifyKeyPair(d) ==
  /\ phase = "idle"
  /\ \E r \in {verify_key_pair(store, d)} :
       /\ store' = r.store
       /\ out' = Outcome("verify_key_pair", r)
  /\ phase' = "received"
  /\ UNCHANGED <<sent, wire, wireInfo, outRef, hashVars, cipherVars, calcVars, keyVars>>

\* SM2Crypto.decrypt_with_debug(wire) right after SM2Crypto.decrypt(wire),
\* on the store decrypt left; outRef keeps what decrypt answered
DebugAgain(d) ==
  /\ phase = "received"
  /\ out.op = "decrypt"
  /\ \E r \in {decrypt_with_debug(store, wire, d)} :
       /\ store' = r.store
       /\ out' = Outcome("decrypt_with_debug", r) @@ [again |-> TRUE]
  /\ outRef' = out
  /\ UNCHANGED <<sent, wire, wireInfo, phase, hashVars, cipherVars, calcVars, keyVars>>

QueryNext ==
  \/ \E text \in QueryTexts, d \in DrawnKeys, k \in TamperScalars : Encrypt(text, d, k)
  \/ \E text \in QueryTexts, k \in TamperScalars : ClientEncrypt(text, k)
  \/ ClearKeysNow
  \/ \E cut \in QueryCuts : Truncate(cut)
  \/ \E strip \in BOOLEAN : ReencodeHex(strip)
  \/ \E d \in DrawnKeys : Decrypt(d)
  \/ \E d \in DrawnKeys : DebugAgain(d)
  \/ \E d \in DrawnKeys : VerifyKeyPair(d)
  \/ NextMessage

QueryInit == HashInit /\ CipherIdle /\ ApiIdle(EmptyStore)

SpecQuery == QueryInit /\ [][QueryNext]_vars

(***************************************************************************)
(* SpecArith: the functions of the arithmetic layer, each called on every  *)
(* input of a bounded range: the point operations on every point of the    *)
(* curve, _mod_inverse, the serialisation of public keys and _kdf          *)
(***************************************************************************)
\* the largest scalar handed to _point_multiply (twice the order of G)
MaxScalar == 14

\* the largest modulus handed to _mod_inverse
MaxModulus == 12

\* every point of the curve, the point at infinity among them
CurvePoints ==
  {Infinity} \cup
  {PointOf(c[1], c[2]) :
     c \in {xy \in (0..(p - 1)) \X (0..(p - 1)) : SatisfiesEquation(xy[1], xy[2])}}

\* secrets (empty, one byte, the 64 bytes of two coordinates) and lengths
\* (around one and two hash outputs) handed to _kdf
KdfSecrets == {<<>>, <<7>>, to_bytes32(BigOf(gx)) \o to_bytes32(BigOf(gy))}

KdfLengths == {0, 1, 31, 32, 33, 64, 65}

\* the record of one call of a function
CallOf(op, args, result) == [op |-> op, args |-> args, result |-> result]

PointAdd(pt1, pt2) ==
  /\ calc = NoCalc
  /\ calc' = CallOf("_point_add", <<pt1, pt2>>, point_add(pt1, pt2))
  /\ UNCHANGED <<hashVars, cipherVars, apiVars, keyVars>>

PointDouble(pt) ==
  /\ calc = NoCalc
  /\ calc' = CallOf("_point_double", <<pt>>, point_double(pt))
  /\ UNCHANGED <<hashVars, cipherVars, apiVars, keyVars>>

PointMultiply(k, point) ==
  /\ calc = NoCalc
  /\ calc' = CallOf("_point_multiply", <<k, point>>, point_multiply(k, point))
  /\ UNCHANGED <<hashVars, cipherVars, apiVars, keyVars>>

ModInverse(aa, m) ==
  /\ calc = NoCalc
  /\ calc' = CallOf("_mod_inverse", <<aa, m>>, mod_inverse(aa, m))
  /\ UNCHANGED <<hashVars, cipherVars, apiVars, keyVars>>

\* public_key_to_bytes followed by bytes_to_public_key
KeyRoundTrip(public_key, compressed) ==
  /\ calc = NoCalc
  /\ \E key_bytes \in {PublicKeyBytes(public_key, compressed)} :
       calc' = CallOf("bytes_to_public_key", <<public_key, compressed, key_bytes>>,
                      IF IsRaised(key_bytes) THEN key_bytes
                      ELSE bytes_to_public_key(key_bytes.value))
  /\ UNCHANGED <<hashVars, cipherVars, apiVars, keyVars>>

Kdf(shared_key, key_len) ==
  /\ calc = NoCalc
  /\ calc' = CallOf("_kdf", <<shared_key, key_len>>, kdf(shared_key, key_len))
  /\ UNCHANGED <<hashVars, cipherVars, apiVars, keyVars>>

\* the caller is done with the result
NextCall ==
  /\ calc # NoCalc
  /\ calc' = NoCalc
  /\ UNCHANGED <<hashVars, cipherVars, apiVars, keyVars>>

ArithNext ==
  \/ \E pt1 \in CurvePoints, pt2 \in CurvePoints : PointAdd(pt1, pt2)
  \/ \E pt \in CurvePoints : PointDouble(pt)
  \/ \E k \in 0..MaxScalar, point \in CurvePoints : PointMultiply(k, point)
  \/ \E m \in 2..MaxModulus, aa \in (0 - MaxModulus)..(2 * MaxModulus) : ModInverse(aa, m)
  \/ \E public_key \in CurvePoints, compressed \in BOOLEAN :
       KeyRoundTrip(public_key, compressed)
  \/ \E shared_key \in KdfSecrets, key_len \in KdfLengths : Kdf(shared_key, key_len)
  \/ NextCall

ArithInit == HashInit /\ CipherIdle /\ ApiIdle(EmptyStore)

SpecArith == ArithInit /\ [][ArithNext]_vars

(***************************************************************************)
(* Properties of SM3Hash (checked under SpecHash)                          *)
(***************************************************************************)
\* C3: two consecutive digest() calls with no update() between them return
\* the same 32-byte value, whatever was fed before.
C3_DigestIdempotent ==
  (dig # NoDigest /\ digPrev # NoDigest) => (Len(dig) = 32 /\ dig = digPrev)

\* C4: digest() leaves the state words, the pending buffer and the byte
\* counter as it found them, so every digest() returns the hash of all the
\* bytes fed so far, also after an earlier digest().
C4_DigestLeavesHasherUnchanged ==
  hashOp = "digest" => (hasher = hasherBefore /\ dig = sm3_hash(fed))

\* C5: after update(c1) ... update(ck) on a fresh hasher, the first digest()
\* equals the one-shot hash of c1 \o ... \o ck, however the bytes are split.
C5_ChunkingIndependence ==
  (hashOp = "digest" /\ nDigests = 1) => dig = sm3_hash(fed)

\* C5 witness: 66 bytes fed in two chunks, the second crossing the block
\* boundary, then one digest().
C5_Witness ==
  hashOp = "digest" /\ nDigests = 1 /\ nUpdates = 2 /\ Len(fed) = 66
  /\ Len(hasher.buffer) = 0 /\ hasher.counter = 66

\* C6: sm3_hexhash reproduces the pinned digests of b"", b"a" and b"abc".
C6_PinnedDigests ==
  hashOp = "hexhash" =>
    /\ hexOut.data = <<>> =>
         hexOut.hex = "1ab21d8355cfa17f8e61194831e81a8f22bec8c728fefb747ed035eb5082aa2b"
    /\ hexOut.data = <<97>> =>
         hexOut.hex = "623476ac18f65a2909e43c7fec61b49c7e764a91a18ccb82f1917a29c86c5e88"
    /\ hexOut.data = <<97, 98, 99>> =>
         hexOut.hex = "66c7f0f462eeedd9d1f2d46bdc10e4e24167c4875cf2f7a2297da02b8f4ba8e0"

\* C6 witness: sm3_hexhash(b"abc") was computed.
C6_Witness == hashOp = "hexhash" /\ hexOut.data = <<97, 98, 99>> /\ Len(hexOut.hex) = 64

(***************************************************************************)
(* Properties of the byte-level cipher (checked under SpecCipher)          *)
(***************************************************************************)
\* C1: for every key pair (d, d*G), every plaintext m and every scalar k in
\* [1, n-1], _decrypt_c1c3c2(d, _encrypt_c1c3c2(d*G, m)) returns exactly m;
\* the ciphertext of the empty plaintext is exactly 97 bytes long.
C1_RoundTrip ==
  /\ cphase # "init" =>
       /\ ~IsRaised(cipher)
       /\ Len(cipher.value) = 97 + Len(plain)
       /\ plain = <<>> => Len(cipher.value) = 97
  /\ cphase = "decrypted" => recovered = Ok(plain)

\* C1 witness: the empty plaintext went through both operations with the
\* largest scalar, and so did a plaintext of 33 bytes.
C1_Witness ==
  /\ cphase = "decrypted"
  /\ drawK = n - 1
  /\ keyD = n - 1
  /\ plain = <<>>
  /\ Len(cipher.value) = 97
  /\ recovered = Ok(<<>>)

(***************************************************************************)
(* Properties of the string interface (checked under Spec)                 *)
(***************************************************************************)
\* C2: for every text s, decrypt(encrypt(s)) returns s when the key store is
\* not cleared or regenerated between the two calls: the native ciphertext
\* is never rejected and never decrypted to a different text.
C2_StringRoundTrip ==
  (phase = "received" /\ wireInfo.by = "encrypt" /\ out.op = "decrypt")
    => out.result = Ok(sent)

\* C2 witness: a text of multi-byte characters came back from decrypt, after
\* the C1C2C3 attempt on the native ciphertext fell through.
C2_Witness ==
  /\ phase = "received"
  /\ wireInfo.by = "encrypt"
  /\ out.op = "decrypt"
  /\ sent = <<233, 8364>>
  /\ out.result = Ok(<<233, 8364>>)
  /\ out.layout = "C1C3C2"

\* C8: a ciphertext laid out as C1 || C2 || C3 for the stored public key, for
\* every text including the empty one, is accepted by decrypt as it is and
\* decrypts to the text.
C8_ClientLayoutAccepted ==
  (phase = "received" /\ wireInfo.by = "client" /\ out.op = "decrypt")
    => (out.result = Ok(sent) /\ out.layout = "C1C2C3")

\* C8 witness: a client's ciphertext of a non-empty text was decrypted in the
\* C1C2C3 layout.
C8_Witness ==
  /\ phase = "received"
  /\ wireInfo.by = "client"
  /\ out.op = "decrypt"
  /\ sent = <<233, 8364>>
  /\ out.result = Ok(<<233, 8364>>)
  /\ out.layout = "C1C2C3"

(***************************************************************************)
(* Properties of decryption under tampering (checked under SpecTamper)     *)
(***************************************************************************)
\* the tag and the unmasked C2 of the ciphertext arranged as C1 || C3 || C2,
\* for the coordinates dc1 of d*C1
TagAndText(dc1, arranged) ==
  [c3    |-> Slice(arranged, 65, 97),
   plain |-> XorBytes(Slice(arranged, 97, Len(arranged)),
                      kdf(dc1.value.x \o dc1.value.y, Len(arranged) - 97))]

\* plain_bytes is the unmasked C2 of arranged, and C3 of arranged is the hash
\* of x2 || plain_bytes || y2
VerifiesFor(dc1, arranged, plain_bytes) ==
  /\ ~IsRaised(dc1)
  /\ TagAndText(dc1, arranged) =
       [c3    |-> sm3_hash(dc1.value.x \o plain_bytes \o dc1.value.y),
        plain |-> plain_bytes]

\* the bytes on the wire verify for plain_bytes under the stored private
\* key, read in the given layout
Verifies(cipher_bytes, layout, plain_bytes) ==
  VerifiesFor(
    CoordBytes(point_multiply(IntOfHex(store[PRIVATE_KEY_NAME]),
                              SM2Point(from_bytes(Slice(cipher_bytes, 1, 33)),
                                       from_bytes(Slice(cipher_bytes, 33, 65))))),
    IF layout = "C1C2C3" THEN ReorderC1C2C3(cipher_bytes) ELSE cipher_bytes,
    plain_bytes)

\* C7: every value returned by _decrypt_c1c3c2, decrypt or decrypt_with_debug
\* is a plaintext whose tag, in the layout that was accepted, equals
\* hash(x2 || p || y2); when no layout verifies an error is the outcome, and
\* the error names no layout and carries no plaintext.
C7_NoUnverifiedPlaintext ==
  phase = "received" =>
    IF IsRaised(out.result)
    THEN out.layout = "none" /\ DOMAIN out.result = {"raised", "what"}
    ELSE /\ out.layout \in {"C1C2C3", "C1C3C2"}
         /\ Verifies(b64decode(wire).value, out.layout,
                     IF out.op = "_decrypt_c1c3c2" THEN out.result.value
                     ELSE utf8_encode(out.result.value))

\* C7 witness: decrypt_with_debug returned the text of a client's ciphertext,
\* verified in the C1C2C3 layout.
C7_Witness ==
  /\ phase = "received"
  /\ out.op = "decrypt_with_debug"
  /\ wireInfo = [by |-> "client", form |-> "base64", flip |-> <<>>]
  /\ sent = <<233>>
  /\ out.result = Ok(<<233>>)
  /\ out.layout = "C1C2C3"

C10_StrippedHexDecrypts ==
  (/\ phase = "received"
   /\ out.op = "decrypt"
   /\ wireInfo.form = "hex-stripped"
   /\ Len(wire) \in {2 * 96, 2 * 99})
    => (~IsRaised(out.result) /\ out.result = outRef.result)

\* C11: decrypt given the hexadecimal encoding of a valid ciphertext returns
\* what decrypt returned for its base64 encoding.  (Does not hold.)
C11_HexEqualsBase64 ==
  (/\ phase = "received"
   /\ out.op = "decrypt"
   /\ wireInfo.form = "hex")
    => (~IsRaised(out.result) /\ out.result = outRef.result)

(***************************************************************************)
(* Properties of the key store (checked under SpecKeys)                    *)
(***************************************************************************)
\* no caller is inside a call
Quiet == \A c \in Callers : call[c].pc \in {"idle", "returned"}

\* caller c made the last return, of operation op, in a run whose calls
\* never overlapped, and no call has begun since
LastSequential(c, op) ==
  /\ ~overlapped
  /\ Quiet
  /\ lastReturn.by = c
  /\ call[c].pc = "returned"
  /\ call[c].op = op

\* both entries of the store are those of pair
Persisted(pair) ==
  /\ ~Missing(store, PRIVATE_KEY_NAME)
  /\ ~Missing(store, PUBLIC_KEY_NAME)
  /\ pair = [private_key |-> store[PRIVATE_KEY_NAME],
             public_key  |-> store[PUBLIC_KEY_NAME]]

\* the call recorded in r generated the pair it returned, and it is persisted
GeneratedAndPersisted(r) ==
  /\ r.wrote
  /\ "pair" \in DOMAIN r
  /\ r.result = r.pair
  /\ Persisted(r.result)

\* the call recorded in r found both entries, returned them and wrote nothing
ReturnedStored(r) ==
  /\ ~r.wrote
  /\ "pair" \notin DOMAIN r
  /\ store = r.before
  /\ r.result = [private_key |-> r.before[PRIVATE_KEY_NAME],
                 public_key  |-> r.before[PUBLIC_KEY_NAME]]

\* C12: get_keys run sequentially returns the two stored values and writes
\* nothing when both entries are present; when either is absent it generates
\* a pair, persists both halves and returns that pair; a get_keys that
\* directly follows a get_keys returns the same pair.
C12_GetOrCreate ==
  \A c \in Callers :
    LastSequential(c, "get_keys") =>
      /\ IF Missing(call[c].before, PRIVATE_KEY_NAME)
            \/ Missing(call[c].before, PUBLIC_KEY_NAME)
         THEN GeneratedAndPersisted(call[c])
         ELSE ReturnedStored(call[c])
      /\ call[c].prev.op = "get_keys" => call[c].result = call[c].prev.keys

\* C12 witness: a get_keys that followed a get_keys returned the pair the
\* first one had generated, without writing.
C12_Witness ==
  \E c \in Callers :
    /\ LastSequential(c, "get_keys")
    /\ call[c].prev.op = "get_keys"
    /\ call[c].result = call[c].prev.keys
    /\ call[c].result \in made
    /\ ~call[c].wrote

\* C13: after a sequential clear_keys neither entry is in the store, and the
\* get_keys that follows it generates a pair and persists it.
C13_ClearThenRegenerate ==
  \A c \in Callers :
    /\ LastSequential(c, "clear_keys") =>
         /\ PRIVATE_KEY_NAME \notin DOMAIN store
         /\ PUBLIC_KEY_NAME \notin DOMAIN store
    /\ (LastSequential(c, "get_keys") /\ call[c].prev.op = "clear_keys") =>
         /\ call[c].before = EmptyStore
         /\ GeneratedAndPersisted(call[c])

\* C13 witness: a pair was stored, clear_keys removed it, and the next
\* get_keys generated and persisted another pair.
C13_Witness ==
  \E c \in Callers :
    /\ LastSequential(c, "get_keys")
    /\ call[c].prev.op = "clear_keys"
    /\ nCalls = 3
    /\ Cardinality(made) = 2
    /\ GeneratedAndPersisted(call[c])

\* C14: once concurrent get_keys calls that started on an empty store have
\* all finished, the private and the public entry of the store were
\* generated by the same call.  (Does not hold.)
C14_LastWriterPairWins ==
  (Quiet /\ overlapped /\ opsSeen = {"get_keys"}) =>
    \E pair \in made : Persisted(pair)

\* C18: every pair get_keys returns satisfies public_key = private_key * G,
\* in every interleaving of get_keys, generate_key_pair and clear_keys.
\* (Does not hold.)
C18_ReturnedPairConsistent ==
  \A c \in Callers :
    (call[c].pc = "returned" /\ call[c].op = "get_keys") =>
      call[c].result = generate_key_pair_hex(IntOfHex(call[c].result.private_key))

(***************************************************************************)
(* Properties of what the public class methods return (under SpecInfo)     *)
(***************************************************************************)
\* the key material and other strings in the value a call returned
ReturnedStrings(op, value) ==
  IF op = "get_public_key" THEN {value}
  ELSE IF op = "get_key_info" THEN {value.private_key, value.public_key}
  ELSE IF "key_info" \in DOMAIN value
  THEN {value.encrypted, value.key_info.private_key, value.key_info.public_key}
  ELSE {value.error}

\* C15: no value returned by get_public_key or by another non-decrypting
\* public operation of SM2Crypto contains the stored private key.
\* (Does not hold.)
C15_PrivateKeyNotReturned ==
  (/\ phase = "received"
   /\ out.op \in {"get_public_key", "get_key_info", "test_encryption"}
   /\ ~IsRaised(out.result))
    => store[PRIVATE_KEY_NAME] \notin ReturnedStrings(out.op, out.result.value)

(***************************************************************************)
(* Properties of structural rejection (checked under SpecMalformed)        *)
(***************************************************************************)
\* the bytes the call that produced out worked on: those decrypt decoded
\* from the wire, or those handed to _decrypt_c1c3c2
WorkedOn ==
  IF out.op = "decrypt" THEN DecodeCipherText(wire) ELSE b64decode(wire)

\* the outcome the structure of cipher_bytes calls for: too short before
\* anything else, then the prefix of C1
StructuralError(cipher_bytes) ==
  IF Len(cipher_bytes) < 97 THEN Raise("ValueError", "ciphertext too short")
  ELSE Raise("ValueError", "invalid C1 format")

Supplied == IF wireInfo.form = "base64" THEN b64decode(wire) ELSE fromhex(wire)

SentBytes == IF wireInfo.by = "client-bytes" THEN sent ELSE utf8_encode(sent)

\* out is the outcome of the C1C2C3 interpretation: its text, or the error
\* of decoding its plaintext
OutcomeOfC1C2C3(decoded) ==
  IF IsRaised(decoded)
  THEN IsRaised(out.result) /\ out.result.what = decoded.what
  ELSE out.result = decoded /\ out.layout = "C1C2C3"

\* C17: whenever the C1C2C3 interpretation of the input verifies, decrypt
\* (and decrypt_with_debug) answers with that interpretation and does not go
\* on to the native C1C3C2 interpretation.  (Does not hold.)
C17_FirstVerifiedLayoutWins ==
  (/\ phase = "received"
   /\ out.op \in {"decrypt", "decrypt_with_debug"}
   /\ Verifies(b64decode(wire).value, "C1C2C3", SentBytes))
    => OutcomeOfC1C2C3(utf8_decode(SentBytes))

(***************************************************************************)
(* Properties of the points computed with (checked under SpecLayout)       *)
(***************************************************************************)
\* the call that produced out got as far as "c1_point = SM2Point(c1_x, c1_y)"
ParsedC1 ==
  /\ phase = "received"
  /\ out.op \in {"decrypt", "_decrypt_c1c3c2"}
  /\ ~IsRaised(WorkedOn)
  /\ Len(WorkedOn.value) >= 97
  /\ WorkedOn.value[1] = 4

\* C19: the C1 point _decrypt_c1c3c2 parses from the ciphertext and
\* multiplies by the private key satisfies the curve equation.  (Does not
\* hold: the coordinates are taken from the bytes as they are.)
C19_ParsedC1OnCurve ==
  ParsedC1 => OnCurve(C1Point(Slice(WorkedOn.value, 0, 65)))

\* C20: no call of decrypt or _decrypt_c1c3c2 ends in the failure of
\* _mod_inverse, whatever ciphertext it was given.  (Does not hold.)
C20_NoInverseFailure ==
  (phase = "received" /\ out.op \in {"decrypt", "_decrypt_c1c3c2"})
    => ~(IsRaised(out.result) /\ out.result.what = "no modular inverse")

(***************************************************************************)
(* Properties of the arithmetic layer (checked under SpecArith)            *)
(***************************************************************************)
RECURSIVE RepeatedAdd(_, _)
\* P + P + ... + P with k summands, by _point_add alone
RepeatedAdd(k, point) ==
  IF k = 0 THEN Infinity ELSE point_add(RepeatedAdd(k - 1, point), point)

\* the order of a point: the least k >= 1 whose k-fold sum is infinity
OrderOf(point) ==
  CHOOSE k \in 1..(2 * p) :
    /\ RepeatedAdd(k, point) = Infinity
    /\ \A j \in 1..(k - 1) : RepeatedAdd(j, point) # Infinity

\* C21: _point_multiply(k, P) is the k-fold sum of P by _point_add, for every
\* point P of the curve and every k in 0..MaxScalar; it is infinity for
\* k = 0 and for k a multiple of the order of P, and P for k = 1.
C21_MultiplyIsRepeatedAdd ==
  calc.op = "_point_multiply" =>
    /\ calc.result = RepeatedAdd(calc.args[1], calc.args[2])
    /\ (calc.args[1] = 0 => calc.result = Infinity)
    /\ (calc.args[1] = 1 => calc.result = calc.args[2])
    /\ (calc.args[1] % OrderOf(calc.args[2]) = 0 => calc.result = Infinity)

\* C21 witness: twice the order of G times G was computed to be infinity.
C21_Witness ==
  /\ calc.op = "_point_multiply"
  /\ calc.args = <<2 * n, PointOf(gx, gy)>>
  /\ calc.result = Infinity

\* the r in [0, m) with (v * r) mod m = 1, found by search
InverseBySearch(v, m) == CHOOSE r \in 0..(m - 1) : (v * r) % m = 1

\* the chord point of two points with different x, for the slope lambda_val
ChordWithSlope(x1, y1, x2, lambda_val) ==
  LET x3 == (lambda_val * lambda_val - x1 - x2) % p
  IN  PointOf(x3, (lambda_val * (x1 - x3) - y1) % p)

\* the chord point with lambda = (Qy - Py) * inverse(Qx - Px) mod p
ChordPoint(P, Q) ==
  ChordWithSlope(Res(P.x), Res(P.y), Res(Q.x),
                 ((Res(Q.y) - Res(P.y))
                    * InverseBySearch((Res(Q.x) - Res(P.x)) % p, p)) % p)

\* the case analysis of add(P, Q)
AddByCases(P, Q) ==
  IF Q.is_infinity THEN P
  ELSE IF P.is_infinity THEN Q
  ELSE IF P.x = Q.x /\ P.y # Q.y THEN Infinity
  ELSE IF P = Q THEN point_double(P)
  ELSE ChordPoint(P, Q)

\* C22: _point_add follows its case analysis (an operand at infinity, two
\* opposite points, two equal points, the chord point otherwise) and is
\* commutative on the points of the curve.
C22_AddCases ==
  calc.op = "_point_add" =>
    /\ calc.result = AddByCases(calc.args[1], calc.args[2])
    /\ calc.result = point_add(calc.args[2], calc.args[1])

\* C22 witness: two different points that are not opposite were added to
\* their chord point.
C22_Witness ==
  /\ calc.op = "_point_add"
  /\ ~calc.args[1].is_infinity /\ ~calc.args[2].is_infinity
  /\ calc.args[1].x # calc.args[2].x
  /\ calc.result = ChordPoint(calc.args[1], calc.args[2])
  /\ ~calc.result.is_infinity

\* the greatest common divisor of m > 1 and any integer v
Gcd(v, m) ==
  CHOOSE g \in 1..m :
    /\ (v % m) % g = 0 /\ m % g = 0
    /\ \A h \in 1..m : ((v % m) % h = 0 /\ m % h = 0) => h <= g

\* C23: _mod_inverse(a, m), for m > 1 and a negative, in [0, m) or beyond,
\* returns the one r in [0, m) with (a * r) mod m = 1 when gcd(a, m) = 1,
\* and raises its error, returning nothing, otherwise.
C23_ModInverse ==
  calc.op = "_mod_inverse" =>
    IF Gcd(calc.args[1], calc.args[2]) = 1
    THEN /\ ~IsRaised(calc.result)
         /\ calc.result.value \in 0..(calc.args[2] - 1)
         /\ (calc.args[1] * calc.result.value) % calc.args[2] = 1
         /\ \A r \in 0..(calc.args[2] - 1) :
              (calc.args[1] * r) % calc.args[2] = 1 => r = calc.result.value
    ELSE calc.result = Raise("ValueError", "no modular inverse")

\* C23 witness: the inverse of the negative -3 modulo 11 was computed, 7.
C23_Witness ==
  /\ calc.op = "_mod_inverse"
  /\ calc.args = <<0 - 3, 11>>
  /\ calc.result = Ok(7)

RECURSIVE HashRounds(_, _)
\* hash(secret || be32(1)) || ... || hash(secret || be32(rounds))
HashRounds(secret, rounds) ==
  IF rounds = 0 THEN <<>>
  ELSE HashRounds(secret, rounds - 1) \o sm3_hash(secret \o <<0, 0, 0, rounds>>)

\* xs is the beginning of ys
IsPrefix(xs, ys) == Len(xs) <= Len(ys) /\ xs = SubSeq(ys, 1, Len(xs))

\* C24: _kdf(secret, L) is L bytes long: empty for L = 0, and else the first
\* L bytes of the hashes of secret || be32(i) for i = 1 .. ceil(L / 32); it
\* begins with _kdf(secret, L1) for every L1 <= L.
C24_Kdf ==
  calc.op = "_kdf" =>
    /\ Len(calc.result) = calc.args[2]
    /\ (calc.args[2] = 0 => calc.result = <<>>)
    /\ calc.result = SubSeq(HashRounds(calc.args[1], (calc.args[2] + 31) \div 32),
                            1, calc.args[2])
    /\ \A L1 \in {l \in KdfLengths : l <= calc.args[2]} :
         IsPrefix(kdf(calc.args[1], L1), calc.result)

\* C24 witness: 65 bytes were derived from a secret of 64 bytes, three
\* rounds of the hash.
C24_Witness ==
  /\ calc.op = "_kdf"
  /\ Len(calc.args[1]) = 64 /\ calc.args[2] = 65
  /\ Len(calc.result) = 65

\* C26: a point of the curve other than infinity comes back from
\* bytes_to_public_key(public_key_to_bytes(P, compressed)) for both values
\* of compressed; the bytes are 0x04 || x || y, or x after the prefix 0x02
\* for an even and 0x03 for an odd y.
C26_KeyRoundTrip ==
  (calc.op = "bytes_to_public_key" /\ ~calc.args[1].is_infinity) =>
    /\ ~IsRaised(calc.args[3])
    /\ calc.result = calc.args[1]
    /\ calc.args[3].value =
         IF calc.args[2]
         THEN <<2 + (Res(calc.args[1].y) % 2)>> \o to_bytes32(calc.args[1].x)
         ELSE <<4>> \o to_bytes32(calc.args[1].x) \o to_bytes32(calc.args[1].y)

\* C26 witness: a point with an odd y whose square root came out even was
\* compressed to 33 bytes with the prefix 0x03 and recovered.
C26_Witness ==
  /\ calc.op = "bytes_to_public_key"
  /\ calc.args[1] = PointOf(8, 5) /\ calc.args[2]
  /\ Len(calc.args[3].value) = 33 /\ calc.args[3].value[1] = 3
  /\ calc.result = PointOf(8, 5)

(***************************************************************************)
(* Properties of the loop of _encrypt_c1c3c2 (checked under SpecCipher)    *)
(***************************************************************************)
\* the key _encrypt_c1c3c2 derives for a plaintext of key_len bytes when it
\* draws k for the public key d * G
MaskOf(d, k, key_len) ==
  kdf(to_bytes32(point_multiply(k, compute_public_key(d)).x)
        \o to_bytes32(point_multiply(k, compute_public_key(d)).y), key_len)

\* the pass of the loop that draws k ends the call
Returns(r, key_len) == ~IsRetry(r) /\ ~IsRaised(r) /\ Len(r.value) = 97 + key_len

\* C25: for the empty plaintext _encrypt_c1c3c2 returns in the pass of its
\* first scalar, whatever it is, C1 || C3 of 97 bytes with nothing after
\* them; for any other plaintext a pass returns when its derived key is not
\* all zero.
C25_NoRetryOnEmpty ==
  /\ cphase = "init" =>
       \A k \in Scalars :
         \A r \in {encrypt_c1c3c2(generate_key_pair_hex(keyD).public_key, plain, k)} :
           IF plain = <<>> THEN Returns(r, 0)
           ELSE \A mask \in {MaskOf(keyD, k, Len(plain))} :
                  mask # [i \in 1..Len(plain) |-> 0] => Returns(r, Len(plain))
  /\ (cphase = "encrypted" /\ plain = <<>>) =>
       cipher = encrypt_c1c3c2(generate_key_pair_hex(keyD).public_key, plain, drawK)

\* C25 witness: the empty plaintext was encrypted in one pass, with the
\* scalar 1, to 97 bytes.
C25_Witness ==
  /\ cphase = "encrypted"
  /\ plain = <<>>
  /\ drawK = 1
  /\ ~IsRaised(cipher)
  /\ Len(cipher.value) = 97

(***************************************************************************)
(* Properties of the asking operations (checked under SpecQuery)           *)
(***************************************************************************)
\* C29: decrypt, decrypt_with_debug and verify_key_pair leave the key store
\* as they found it, whatever it held.  (Does not hold.)
C29_QueriesLeaveStore ==
  [][(out' # out /\ out'.op \in {"decrypt", "decrypt_with_debug", "verify_key_pair"})
       => store' = store]_vars

\* two outcomes of the same kind: both errors, or the same text
SameOutcome(r1, r2) ==
  IF IsRaised(r1) THEN IsRaised(r2) ELSE (~IsRaised(r2) /\ r1.value = r2.value)

\* C30: decrypt_with_debug, called on the string and the store decrypt was
\* called on, reports success with the text decrypt returned, and failure
\* when decrypt raised.  (Does not hold.)
C30_DebugAgreesWithDecrypt ==
  (phase = "received" /\ "again" \in DOMAIN out) => SameOutcome(outRef.result, out.result)

(***************************************************************************)
(* Properties of the propagation of errors (checked under SpecLayout)      *)
(***************************************************************************)
\* what the C1C2C3 attempt of decrypt comes to on cipher_bytes with the
\* stored private key: the text, or the exception raised in it
AttemptC1C2C3(cipher_bytes) ==
  DecodePlain(decrypt_c1c3c2(store[PRIVATE_KEY_NAME], ReorderC1C2C3(cipher_bytes)))

\* the failure of the tag comparison, after which the other layout is tried
IsTagFailure(r) == IsRaised(r) /\ r.what = "ciphertext verification failed"

\* C27: a failure raised while decrypt attempts the C1C2C3 layout, other
\* than the mismatch of the tag that sends it on to the native layout,
\* reaches the caller as that error.  (Does not hold.)
C27_FailuresPropagate ==
  (/\ phase = "received"
   /\ out.op = "decrypt"
   /\ ~IsRaised(WorkedOn)
   /\ Len(WorkedOn.value) >= 97
   /\ WorkedOn.value[1] = 4)
    => \A first \in {AttemptC1C2C3(WorkedOn.value)} :
         (IsRaised(first) /\ ~IsTagFailure(first)) => out.result = first

(***************************************************************************)
(* Properties of the state of SM3Hash (checked under SpecHash)             *)
(***************************************************************************)
\* C28: after any sequence of reset(), update() and digest() the pending
\* buffer holds fewer than 64 bytes, as many as the byte counter modulo 64:
\* the bytes fed since the last complete block.  (Does not hold.)
C28_BufferMatchesCounter ==
  /\ Len(hasher.buffer) < 64
  /\ Len(hasher.buffer) = hasher.counter % 64
  /\ hasher.buffer = SubSeq(fed, Len(fed) - (Len(fed) % 64) + 1, Len(fed))

====
